---- MODULE Spec2Model ----
(***************************************************************************)
(* Mentorship-log backend: the log workflow state machine, the access      *)
(* control predicates and the specialist-notification fan-out, modelled    *)
(* from backend/app/routers/mentorship_logs.py, routers/comments.py,       *)
(* dependencies.py and models.py; the children of a log from               *)
(* routers/follow_ups.py and routers/attachments.py; users and facilities  *)
(* from routers/users.py, routers/auth.py and routers/facilities.py; the   *)
(* notification inbox from routers/notifications.py.                       *)
(*                                                                         *)
(* Every HTTP handler is one action.  A handler loads one log by id and    *)
(* never reads another log, so the store holds the log ids of LogIds.      *)
(* Each action records the request and its outcome in resp, which lets a   *)
(* property speak about "the call was rejected and nothing changed".       *)
(* datetime.utcnow() is abstracted to the single value NOW: a timestamp    *)
(* column of a log is either NULL or NOW.  The read_at of a notification   *)
(* is compared across requests and takes one of two instants.              *)
(***************************************************************************)
EXTENDS Integers, Sequences, FiniteSets, Bags, TLC

VARIABLES
    facilities,               \* facilities table: set of facility ids
    attachments,              \* attachments table, in insertion order
    blobs,                    \* the storage bucket: set of stored paths
    users,                    \* users table: id -> [role, supervisor_id, is_active]
    specializations,          \* user_specializations table: id -> set of thematic areas
    logs,                     \* mentorship_logs table (with its composed children)
    specialist_notifications, \* specialist_notifications table: bag of <<log, user, area>>
    specialist_read,          \* its rows with is_read = True -> their read_at
    notifications,            \* notifications table, in insertion order
    comments,                 \* log_comments table, in insertion order
    pending,                  \* requests whose handler has loaded its log and not yet committed
    resp                      \* the last request and its outcome

vars == <<facilities, attachments, blobs, users, specializations, logs,
          specialist_notifications, specialist_read, notifications, comments,
          pending, resp>>

-----------------------------------------------------------------------------
(* Bounds and input domains *)

MaxAreas == 2           \* longest thematic_areas list a request carries
MaxNotifications == 2   \* rows the notifications table may hold
MaxComments == 1        \* rows the log_comments table may hold
MaxAttachments == 1     \* rows the attachments table may hold
MaxFollowUps == 1       \* follow-ups a log may hold
MaxInFlight == 2        \* review requests that run at the same time

NULL == "NULL"
NOW == "NOW"

UserIds == {"m1", "m2", "m3", "s1", "ad"}
SpareUserIds == {"n1"}           \* ids of users created later
LogIds == {"L1"}
FacilityIds == {"F1"}
Areas == {"PMTCT", "TB/HIV"}
Items == {"item"}

\* Request bodies
AreaLists == UNION {[1..n -> Areas] : n \in 0..MaxAreas}
ItemLists == {<<>>} \cup {<<i>> : i \in Items}
\* FollowUpNested bodies: the assigned_to of each action item.
FollowUpItems == {[assigned_to |-> NULL]}
FollowUpLists == {<<>>} \cup {<<i>> : i \in FollowUpItems}
Reasons == {<<>>, <<" ">>, <<"r">>}

\* An optional request field / a nullable text column: unset, or a value.
Unset == [set |-> FALSE, value |-> <<>>]
Given(v) == [set |-> TRUE, value |-> v]
Optional(S) == {Unset} \cup {Given(v) : v \in S}

\* MentorshipLogUpdate bodies: thematic_areas, skills_transfers, follow_ups.
LogUpdates(areaLists, itemLists) ==
    [thematic_areas : Optional(areaLists),
     skills_transfers : Optional(itemLists),
     follow_ups : Optional(FollowUpLists)]

\* Bodies that leave the nested lists out.
AreaUpdates == [thematic_areas : Optional(AreaLists),
                skills_transfers : {Unset}, follow_ups : {Unset}]

\* Bodies with nested lists, over the short thematic_areas lists.
ShortAreaLists == {<<>>, <<"PMTCT">>}
NestedUpdates == LogUpdates(ShortAreaLists, ItemLists)

-----------------------------------------------------------------------------
(* Enumerations of models.py *)

UserRole == {"mentor", "supervisor", "admin"}
FollowUpStatus == {"pending", "in_progress", "completed"}
LogStatus == {"draft", "submitted", "approved", "completed"}
NotificationType == {"specialist_log", "comment", "approval", "rejection"}

-----------------------------------------------------------------------------
(* Initial store: two mentors (m1 supervised by s1, m2 unsupervised), a     *)
(* deactivated mentor, a supervisor and an admin; no logs.                  *)

EmailOf(u) == <<u, "@example.com">>

NewUser(email, role, supervisor, active) ==
    [email |-> email, role |-> role, supervisor_id |-> supervisor, is_active |-> active]

InitUsers ==
    [u \in UserIds |->
        CASE u = "m1" -> NewUser(EmailOf(u), "mentor", "s1", TRUE)
          [] u = "m2" -> NewUser(EmailOf(u), "mentor", NULL, TRUE)
          [] u = "m3" -> NewUser(EmailOf(u), "mentor", NULL, FALSE)
          [] u = "s1" -> NewUser(EmailOf(u), "supervisor", NULL, TRUE)
          [] OTHER    -> NewUser(EmailOf(u), "admin", NULL, TRUE)]

InitSpecializations ==
    [u \in UserIds |->
        CASE u = "m2" -> {"PMTCT"}
          [] u = "m3" -> {"PMTCT"}
          [] u = "s1" -> {"TB/HIV"}
          [] OTHER    -> {}]

NoLogs == [l \in {} |-> NULL]

\* The MentorshipLogUpdate body that sets nothing.
NoLogUpdate ==
    [thematic_areas |-> Unset, skills_transfers |-> Unset, follow_ups |-> Unset]

NoRequest ==
    [op |-> "none", actor |-> NULL, log |-> NULL, result |-> "none",
     items |-> {}, reason |-> Unset, target |-> NULL, index |-> 0, ids |-> {},
     fields |-> {}, body |-> NoLogUpdate]

Init ==
    /\ facilities = FacilityIds
    /\ attachments = <<>>
    /\ blobs = {}
    /\ users = InitUsers
    /\ specializations = InitSpecializations
    /\ logs = NoLogs
    /\ specialist_notifications = EmptyBag
    /\ specialist_read = <<>>
    /\ notifications = <<>>
    /\ comments = <<>>
    /\ pending = {}
    /\ resp = NoRequest

-----------------------------------------------------------------------------
(* Helpers *)

Range(s) == {s[i] : i \in DOMAIN s}

Exists(l) == l \in DOMAIN logs

\* db.delete(row) of the i-th row of a table.
RemoveAt(seq, i) ==
    [j \in 1..(Len(seq) - 1) |-> IF j < i THEN seq[j] ELSE seq[j + 1]]

\* The outcome of a request: "ok" (2xx), "bad_request" (400), "forbidden"
\* (403), "not_found" (404), "inactive" (403 "Inactive user").
\* items is the set of logs a list request returns, reason the reason
\* parameter of a reject request; target is the user, index the follow-up
\* or notification and ids the notification ids a request names, fields
\* the fields a user update body carries, body the body of a log update.
RespondFull(op, a, l, result, items, reason) ==
    resp' = [op |-> op, actor |-> a, log |-> l, result |-> result,
             items |-> items, reason |-> reason,
             target |-> NULL, index |-> 0, ids |-> {}, fields |-> {},
             body |-> NoLogUpdate]

Respond(op, a, l, result) == RespondFull(op, a, l, result, {}, Unset)

\* A request that names a follow-up, attachment or notification by id.
RespondAt(op, a, l, result, i) ==
    resp' = [NoRequest EXCEPT !.op = op, !.actor = a, !.log = l,
                              !.result = result, !.index = i]

RespondItems(op, a, result, items) == RespondFull(op, a, NULL, result, items, Unset)

\* Mutant: the is_active check of get_current_user is missing.
get_current_user_skips_is_active(a) == TRUE

\* get_current_user: the token's user must be active.
get_current_user(a) == users[a].is_active

\* Mutant: the dependency admits every role.
require_any_role(a) == users[a].role \in {"mentor", "supervisor", "admin"}

\* require_role(UserRole.supervisor, UserRole.admin)
require_supervisor_or_admin(a) == users[a].role \in {"supervisor", "admin"}

UNCHANGED_store ==
    UNCHANGED <<facilities, attachments, blobs, users, specializations, logs, specialist_notifications, specialist_read,
                notifications, comments, pending>>

\* A request that ends in an HTTPException: nothing was written.
Fail(op, a, l, result) ==
    /\ Respond(op, a, l, result)
    /\ UNCHANGED_store

FailAt(op, a, l, result, i) ==
    /\ RespondAt(op, a, l, result, i)
    /\ UNCHANGED_store

FailReject(a, l, result, reason) ==
    /\ RespondFull("reject", a, l, result, {}, Given(reason))
    /\ UNCHANGED_store

\* str.strip() emptiness test of "not reason or not reason.strip()".
RECURSIVE lstrip(_)
lstrip(s) == IF s # <<>> /\ Head(s) = " " THEN lstrip(Tail(s)) ELSE s

RECURSIVE rstrip(_)
rstrip(s) ==
    IF s # <<>> /\ s[Len(s)] = " " THEN rstrip(SubSeq(s, 1, Len(s) - 1)) ELSE s

strip(s) == rstrip(lstrip(s))

-----------------------------------------------------------------------------
(* create_mentorship_log *)

\* uuid4 primary keys: a new log's id is no id the store holds anywhere.
FreshLogIds ==
    LogIds \ (DOMAIN logs
               \cup {t[1] : t \in BagToSet(specialist_notifications)}
               \cup {notifications[i].related_log_id : i \in DOMAIN notifications}
               \cup {comments[i].mentorship_log_id : i \in DOMAIN comments}
               \cup {attachments[i].mentorship_log_id : i \in DOMAIN attachments})

\* FollowUp(**fu_data.model_dump(), ...): status defaults to pending.
NewFollowUp(body) ==
    [assigned_to |-> body.assigned_to, status |-> "pending", completed_at |-> NULL]

NewFollowUps(fus) == [i \in DOMAIN fus |-> NewFollowUp(fus[i])]

NewLog(a, f, areas, sts, fus) ==
    [mentor_id |-> a, facility_id |-> f, status |-> "draft", thematic_areas |-> areas,
     skills_transfers |-> sts, follow_ups |-> NewFollowUps(fus),
     submitted_at |-> NULL, approved_at |-> NULL, approved_by |-> NULL,
     rejected_at |-> NULL, rejection_reason |-> Unset]

create_mentorship_log(a, areas, sts, fus) ==
    IF ~get_current_user(a) THEN Fail("create", a, NULL, "inactive")
    ELSE \E l \in FreshLogIds, f \in facilities :
        /\ logs' = [x \in DOMAIN logs \cup {l} |->
                        IF x = l THEN NewLog(a, f, areas, sts, fus) ELSE logs[x]]
        /\ Respond("create", a, l, "ok")
        /\ UNCHANGED <<facilities, attachments, blobs, users, specializations, specialist_notifications, specialist_read,
                       notifications, comments, pending>>

-----------------------------------------------------------------------------
(* update_mentorship_log *)

\* Mutant: the supplied nested lists are appended to the existing ones.
ApplyLogUpdate_append(log, upd) ==
    [log EXCEPT
        !.thematic_areas = IF upd.thematic_areas.set
                           THEN upd.thematic_areas.value ELSE @,
        !.skills_transfers = IF upd.skills_transfers.set
                             THEN @ \o upd.skills_transfers.value ELSE @,
        !.follow_ups = IF upd.follow_ups.set
                       THEN @ \o NewFollowUps(upd.follow_ups.value) ELSE @]

\* setattr for the fields the body sets, full replace of the nested lists
\* the body supplies.
ApplyLogUpdate(log, upd) ==
    [log EXCEPT
        !.thematic_areas = IF upd.thematic_areas.set
                           THEN upd.thematic_areas.value ELSE @,
        !.skills_transfers = IF upd.skills_transfers.set
                             THEN upd.skills_transfers.value ELSE @,
        !.follow_ups = IF upd.follow_ups.set
                       THEN NewFollowUps(upd.follow_ups.value) ELSE @]

\* Mutant: supervisors and admins may edit as well.
update_is_owner_or_reviewer(a, l) ==
    logs[l].mentor_id = a \/ users[a].role \in {"supervisor", "admin"}

\* "Only the log creator can edit their log"
update_is_owner(a, l) == logs[l].mentor_id = a

\* "Only draft logs can be edited"
update_is_editable(l) == logs[l].status = "draft"

\* bodies: the request bodies the call may carry.
update_mentorship_log(a, l, bodies) ==
    IF ~get_current_user(a) THEN Fail("update", a, l, "inactive")
    ELSE IF ~Exists(l) THEN Fail("update", a, l, "not_found")
    ELSE IF ~update_is_owner(a, l) THEN Fail("update", a, l, "forbidden")
    ELSE IF ~update_is_editable(l) THEN Fail("update", a, l, "bad_request")
    ELSE \E upd \in bodies :
         /\ logs' = [logs EXCEPT ![l] = ApplyLogUpdate(@, upd)]
         /\ resp' = [NoRequest EXCEPT !.op = "update", !.actor = a, !.log = l,
                                       !.result = "ok", !.body = upd]
         /\ UNCHANGED <<facilities, attachments, blobs, users, specializations, specialist_notifications, specialist_read,
                        notifications, comments, pending>>

-----------------------------------------------------------------------------
(* submit_mentorship_log *)

\* "Mentors can only submit their own logs"
submit_permitted(a, l) == ~(users[a].role = "mentor" /\ logs[l].mentor_id # a)

\* "Only draft logs can be submitted."
submit_source_ok(l) == logs[l].status = "draft"

\* The specialists query for one area: users joined with their
\* specializations, active, and not the submitting user.
Specialists(area, a) ==
    {u \in DOMAIN users : /\ area \in specializations[u]
                      /\ users[u].is_active
                      /\ u # a}

\* The query has no ORDER BY: its rows come in some order of the users.
Orders(S) == {f \in [1..Cardinality(S) -> S] : Range(f) = S}

InSet(S, u) == u \in S

RowsOf(ord, S) == SelectSeq(ord, LAMBDA u : InSet(S, u))

\* The (area, specialist) pairs the two nested loops visit, in order.
RECURSIVE Candidates(_, _, _)
Candidates(areas, a, ord) ==
    IF areas = <<>> THEN <<>>
    ELSE LET rows == RowsOf(ord, Specialists(Head(areas), a))
         IN  [i \in 1..Len(rows) |-> <<Head(areas), rows[i]>>]
             \o Candidates(Tail(areas), a, ord)

\* The session's open transaction: whether it holds the log's new status
\* and submitted_at, and the notification rows flushed so far.
SubmitTx == [log_updated |-> TRUE, added |-> EmptyBag]

\* Session.rollback(): the whole open transaction is discarded.
Rollback(tx) == [log_updated |-> FALSE, added |-> EmptyBag]

\* Mutant: the table has no unique constraint.
uq_unenforced(row, table) == FALSE

\* uq_specialist_notification: the flush of a row whose (log, specialist,
\* area) the table already holds raises.
uq_specialist_notification(row, table) == BagIn(row, table)

\* One pass of the try/except: add and flush the row; a violation of
\* uq_specialist_notification raises, and the handler calls db.rollback().
AddNotification(tx, committed, row) ==
    IF uq_specialist_notification(row, committed (+) tx.added)
    THEN Rollback(tx)
    ELSE [tx EXCEPT !.added = @ (+) SetToBag({row})]

RECURSIVE FanOut(_, _, _, _)
FanOut(cands, l, committed, tx) ==
    IF cands = <<>> THEN tx
    ELSE FanOut(Tail(cands), l, committed,
                AddNotification(tx, committed, <<l, Head(cands)[2], Head(cands)[1]>>))

submit_mentorship_log(a, l) ==
    IF ~get_current_user(a) THEN Fail("submit", a, l, "inactive")
    ELSE IF ~Exists(l) THEN Fail("submit", a, l, "not_found")
    ELSE IF ~submit_permitted(a, l) THEN Fail("submit", a, l, "forbidden")
    ELSE IF ~submit_source_ok(l) THEN Fail("submit", a, l, "bad_request")
    ELSE \E ord \in Orders({u \in DOMAIN users : specializations[u] # {}}) :
         LET tx == FanOut(Candidates(logs[l].thematic_areas, a, ord), l,
                          specialist_notifications, SubmitTx)
         IN  \* db.commit(): what the transaction still holds is stored
             /\ logs' = IF tx.log_updated
                         THEN [logs EXCEPT ![l].status = "submitted",
                                           ![l].submitted_at = NOW]
                         ELSE logs
             /\ specialist_notifications' = specialist_notifications (+) tx.added
             /\ Respond("submit", a, l, "ok")
             /\ UNCHANGED <<facilities, attachments, blobs, users, specializations,
                            specialist_read, notifications, comments, pending>>

-----------------------------------------------------------------------------
(* approve_mentorship_log *)

\* Mutant: every supervisor may approve every log.
can_approve_log_any_supervisor(a, l) == users[a].role \in {"admin", "supervisor"}

can_approve_log(a, l) ==
    \/ users[a].role = "admin"
    \/ /\ users[a].role = "supervisor"
       /\ users[logs[l].mentor_id].supervisor_id = a

\* "Only submitted logs can be approved."
approve_source_ok(l) == logs[l].status = "submitted"

\* Primary keys of the notifications table (uuid4 in the code; the rows are
\* told apart by nothing else, so a new row takes the first unused one).
NotificationIds == 1..MaxNotifications

FreshNotificationId ==
    CHOOSE n \in NotificationIds :
        /\ \A i \in DOMAIN notifications : notifications[i].id # n
        /\ \A m \in NotificationIds :
              (\A i \in DOMAIN notifications : notifications[i].id # m) => n <= m

\* Mutant: every row is written with the type of a comment notification.
NewNotification_as_comment(user, type, l, reason) ==
    [id |-> FreshNotificationId,
     user_id |-> user, notification_type |-> "comment", related_log_id |-> l,
     facility_name |-> logs[l].facility_id,
     reason |-> reason, is_read |-> FALSE, read_at |-> NULL]

\* facility_name: the extra_data the handler fills from the log's facility.
NewNotification(user, type, l, reason) ==
    [id |-> FreshNotificationId,
     user_id |-> user, notification_type |-> type, related_log_id |-> l,
     facility_name |-> logs[l].facility_id,
     reason |-> reason, is_read |-> FALSE, read_at |-> NULL]

approve_mentorship_log(a, l) ==
    IF ~get_current_user(a) THEN Fail("approve", a, l, "inactive")
    ELSE IF ~require_supervisor_or_admin(a) THEN Fail("approve", a, l, "forbidden")
    ELSE IF ~Exists(l) THEN Fail("approve", a, l, "not_found")
    ELSE IF ~can_approve_log(a, l) THEN Fail("approve", a, l, "forbidden")
    ELSE IF ~approve_source_ok(l) THEN Fail("approve", a, l, "bad_request")
    ELSE /\ logs' = [logs EXCEPT ![l].status = "approved",
                                  ![l].approved_at = NOW,
                                  ![l].approved_by = a]
         /\ IF logs[l].mentor_id # a
            THEN /\ Len(notifications) < MaxNotifications
                 /\ notifications' = Append(notifications,
                        NewNotification(logs[l].mentor_id, "approval", l, Unset))
            ELSE UNCHANGED notifications
         /\ Respond("approve", a, l, "ok")
         /\ UNCHANGED <<facilities, attachments, blobs, users, specializations, specialist_notifications, specialist_read, comments, pending>>

-----------------------------------------------------------------------------
(* return_log_to_draft *)

\* Mutant: the status check is missing.
return_source_unchecked(l) == TRUE

\* "Only submitted logs can be returned."
return_source_ok(l) == logs[l].status = "submitted"

return_log_to_draft(a, l) ==
    IF ~get_current_user(a) THEN Fail("return_to_draft", a, l, "inactive")
    ELSE IF ~require_supervisor_or_admin(a)
         THEN Fail("return_to_draft", a, l, "forbidden")
    ELSE IF ~Exists(l) THEN Fail("return_to_draft", a, l, "not_found")
    ELSE IF ~return_source_ok(l) THEN Fail("return_to_draft", a, l, "bad_request")
    ELSE /\ logs' = [logs EXCEPT ![l].status = "draft",
                                  ![l].submitted_at = NULL]
         /\ Respond("return_to_draft", a, l, "ok")
         /\ UNCHANGED <<facilities, attachments, blobs, users, specializations, specialist_notifications, specialist_read,
                        notifications, comments, pending>>

-----------------------------------------------------------------------------
(* reject_mentorship_log *)

\* Mutant: only the empty string counts as missing.
reason_missing_unstripped(reason) == reason = <<>>

\* "not reason or not reason.strip()"
reason_missing(reason) == reason = <<>> \/ strip(reason) = <<>>

\* Mutant: the status check is missing.
reject_source_unchecked(l) == TRUE

\* "Only submitted logs can be rejected."
reject_source_ok(l) == logs[l].status = "submitted"

reject_mentorship_log(a, l, reason) ==
    IF ~get_current_user(a) THEN FailReject(a, l, "inactive", reason)
    ELSE IF ~require_supervisor_or_admin(a) THEN FailReject(a, l, "forbidden", reason)
    ELSE IF ~Exists(l) THEN FailReject(a, l, "not_found", reason)
    ELSE IF ~reject_source_ok(l) THEN FailReject(a, l, "bad_request", reason)
    ELSE IF reason_missing(reason) THEN FailReject(a, l, "bad_request", reason)
    ELSE /\ logs' = [logs EXCEPT ![l].status = "draft",
                                  ![l].rejected_at = NOW,
                                  ![l].rejection_reason = Given(reason),
                                  ![l].submitted_at = NULL]
         /\ IF logs[l].mentor_id # a
            THEN /\ Len(notifications) < MaxNotifications
                 /\ notifications' = Append(notifications,
                        NewNotification(logs[l].mentor_id, "rejection", l, Given(reason)))
            ELSE UNCHANGED notifications
         /\ RespondFull("reject", a, l, "ok", {}, Given(reason))
         /\ UNCHANGED <<facilities, attachments, blobs, users, specializations, specialist_notifications, specialist_read, comments, pending>>

-----------------------------------------------------------------------------
(* get_mentorship_log *)

\* can_view_as_specialist: the user's specializations overlap the log's
\* thematic areas.
can_view_as_specialist(l, u) ==
    /\ logs[l].thematic_areas # <<>>
    /\ specializations[u] \cap Range(logs[l].thematic_areas) # {}

\* Mutant: the specialist branch does not look at the status.
view_status_unchecked(l) == TRUE

\* "Specialists can view submitted/approved logs"
view_status_ok(l) == logs[l].status \in {"submitted", "approved"}

\* The status get_mentorship_log answers with: the dependency, the lookup
\* and the "Check permissions" block, in the order of the code.
get_mentorship_log_status(a, l) ==
    IF ~get_current_user(a) THEN "inactive"
    ELSE IF ~Exists(l) THEN "not_found"
    ELSE IF users[a].role \in {"admin", "supervisor"} THEN "ok"
    ELSE IF users[a].role = "mentor" /\ logs[l].mentor_id = a THEN "ok"
    ELSE IF view_status_ok(l) /\ can_view_as_specialist(l, a) THEN "ok"
    ELSE "forbidden"

get_mentorship_log(a, l) ==
    /\ UNCHANGED_store
    /\ Respond("get_log", a, l, get_mentorship_log_status(a, l))

-----------------------------------------------------------------------------
(* list_mentorship_logs, without the optional filters *)

\* Mutant: the specialist condition does not look at the status.
get_visible_logs_query_any_status(a) ==
    IF users[a].role = "admin" THEN DOMAIN logs
    ELSE {l \in DOMAIN logs :
            \/ logs[l].mentor_id = a
            \/ /\ users[a].role = "supervisor"
               /\ users[logs[l].mentor_id].supervisor_id = a
            \/ /\ specializations[a] # {}
               /\ Range(logs[l].thematic_areas) \cap specializations[a] # {}}

\* get_visible_logs_query: the OR of the conditions, or every log for an admin.
get_visible_logs_query(a) ==
    IF users[a].role = "admin" THEN DOMAIN logs
    ELSE {l \in DOMAIN logs :
            \/ logs[l].mentor_id = a
            \/ /\ users[a].role = "supervisor"
               /\ users[logs[l].mentor_id].supervisor_id = a
            \/ /\ specializations[a] # {}
               /\ Range(logs[l].thematic_areas) \cap specializations[a] # {}
               /\ logs[l].status \in {"submitted", "approved"}}

list_mentorship_logs(a) ==
    /\ UNCHANGED_store
    /\ IF ~get_current_user(a) THEN RespondItems("list_logs", a, "inactive", {})
       ELSE RespondItems("list_logs", a, "ok", get_visible_logs_query(a))

-----------------------------------------------------------------------------
(* get_log_comments / create_log_comment *)

\* The "Check access" block shared by both handlers: own log, admin,
\* assigned supervisor.
comment_access_by_role(a, l) ==
    IF logs[l].mentor_id = a THEN TRUE
    ELSE IF users[a].role = "admin" THEN TRUE
    ELSE IF users[a].role = "supervisor"
         THEN users[logs[l].mentor_id].supervisor_id = a
    ELSE FALSE

\* "if not can_access and can_view_as_specialist(log, current_user, db)"
comment_access_as_specialist(a, l) ==
    ~comment_access_by_role(a, l) /\ can_view_as_specialist(l, a)

get_log_comments(a, l) ==
    /\ UNCHANGED_store
    /\ IF ~get_current_user(a) THEN Respond("get_comments", a, l, "inactive")
       ELSE IF ~Exists(l) THEN Respond("get_comments", a, l, "not_found")
       ELSE IF comment_access_by_role(a, l) \/ comment_access_as_specialist(a, l)
            THEN Respond("get_comments", a, l, "ok")
       ELSE Respond("get_comments", a, l, "forbidden")

\* flag: the body's is_specialist_comment.
create_log_comment(a, l, flag) ==
    IF ~get_current_user(a) THEN Fail("create_comment", a, l, "inactive")
    ELSE IF ~Exists(l) THEN Fail("create_comment", a, l, "not_found")
    ELSE IF ~(comment_access_by_role(a, l) \/ comment_access_as_specialist(a, l))
         THEN Fail("create_comment", a, l, "forbidden")
    ELSE /\ Len(comments) < MaxComments
         /\ comments' = Append(comments,
                [mentorship_log_id |-> l, user_id |-> a,
                 is_specialist_comment |->
                    comment_access_as_specialist(a, l) \/ flag])
         /\ Respond("create_comment", a, l, "ok")
         /\ UNCHANGED <<facilities, attachments, blobs, users, specializations, logs, specialist_notifications, specialist_read,
                        notifications, pending>>

-----------------------------------------------------------------------------
(* delete_mentorship_log *)

\* What a DELETE of a mentorship_logs row does to the rows that reference it
\* without an ORM cascade depends on how the database was built:
\* "create_all" from models.py (foreign keys without ON DELETE, enforced),
\* "migrated" by the alembic revision (specialist_notifications ON DELETE
\* CASCADE), or "unenforced" (SQLite without the foreign_keys pragma).
Schemas == {"create_all", "migrated", "unenforced"}

NotifiedLogs == {notifications[i].related_log_id : i \in DOMAIN notifications}

SpecialistNotifiedLogs == {t[1] : t \in BagToSet(specialist_notifications)}

\* The commit raises IntegrityError: the handler ends in a 500.
fk_violation(l, schema) ==
    CASE schema = "create_all" -> l \in NotifiedLogs \cup SpecialistNotifiedLogs
      [] schema = "migrated"   -> l \in NotifiedLogs
      [] OTHER                 -> FALSE

\* ON DELETE CASCADE of the migration's specialist_notifications table.
fk_cascade(l, schema) ==
    IF schema = "migrated"
    THEN [t \in {x \in BagToSet(specialist_notifications) : x[1] # l} |->
            specialist_notifications[t]]
    ELSE specialist_notifications

IsOf(row, l) == row.mentorship_log_id = l

\* Mutant: the comments relationship has no delete cascade.
cascade_comments_missing(l) == comments

\* relationship(..., cascade="all, delete-orphan") of MentorshipLog.comments
cascade_comments(l) == SelectSeq(comments, LAMBDA c : ~IsOf(c, l))

\* relationship(..., cascade="all, delete-orphan") of MentorshipLog.attachments
cascade_attachments(l) == SelectSeq(attachments, LAMBDA r : ~IsOf(r, l))

\* "You can only delete your own logs"
delete_is_permitted(a, l) == ~(users[a].role = "mentor" /\ logs[l].mentor_id # a)

\* "You can only delete draft logs"
delete_status_ok(a, l) == ~(users[a].role = "mentor" /\ logs[l].status # "draft")

delete_mentorship_log(a, l, schema) ==
    IF ~get_current_user(a) THEN Fail("delete", a, l, "inactive")
    ELSE IF ~Exists(l) THEN Fail("delete", a, l, "not_found")
    ELSE IF ~delete_is_permitted(a, l) THEN Fail("delete", a, l, "forbidden")
    ELSE IF ~delete_status_ok(a, l) THEN Fail("delete", a, l, "bad_request")
    ELSE IF fk_violation(l, schema) THEN Fail("delete", a, l, "server_error")
    ELSE \* the log row goes with its skills_transfers and follow_ups
         /\ logs' = [x \in DOMAIN logs \ {l} |-> logs[x]]
         /\ comments' = cascade_comments(l)
         /\ attachments' = cascade_attachments(l)
         /\ specialist_notifications' = fk_cascade(l, schema)
         /\ specialist_read' =
                [t \in DOMAIN specialist_read \cap BagToSet(fk_cascade(l, schema)) |->
                    specialist_read[t]]
         /\ Respond("delete", a, l, "ok")
         /\ UNCHANGED <<facilities, blobs, users, specializations, notifications, pending>>

-----------------------------------------------------------------------------
(* attachments.py *)

MAX_FILE_SIZE == 10 * 1024 * 1024

ALLOWED_EXTENSIONS ==
    {".jpg", ".jpeg", ".png", ".gif", ".pdf", ".doc", ".docx", ".xls", ".xlsx",
     ".ppt", ".pptx", ".zip", ".rar"}

\* Uploaded files: the name split at its suffix, and the content's length.
Files ==
    {[stem |-> "a", suffix |-> ".pdf", size |-> 1],
     [stem |-> "x", suffix |-> ".exe", size |-> 1],
     [stem |-> "big", suffix |-> ".pdf", size |-> MAX_FILE_SIZE + 1]}

FileLists == {<<f>> : f \in Files} \cup {<<f, g>> : f \in Files, g \in Files}

\* check_file_permissions
check_file_permissions(a, l) ==
    IF users[a].role \in {"admin", "supervisor"} THEN TRUE
    ELSE logs[l].mentor_id = a

\* f"mentorship-logs/{mentorship_log_id}/{file_name}"
StoragePath(l, f) == <<"mentorship-logs", l, f.stem, f.suffix>>

NewAttachment(a, l, f) ==
    [mentorship_log_id |-> l, file_name |-> <<f.stem, f.suffix>>,
     file_path |-> StoragePath(l, f), uploaded_by |-> a]

\* The "for file in files" loop: a file that fails validation raises; the
\* files before it are already in the bucket, their rows are not committed.
RECURSIVE UploadLoop(_, _, _, _)
UploadLoop(files, a, l, st) ==
    IF files = <<>> THEN st
    ELSE IF Head(files).suffix \notin ALLOWED_EXTENSIONS
         THEN [st EXCEPT !.raised = TRUE]
    ELSE IF Head(files).size > MAX_FILE_SIZE
         THEN [st EXCEPT !.raised = TRUE]
    ELSE UploadLoop(Tail(files), a, l,
            [st EXCEPT !.stored = @ \cup {StoragePath(l, Head(files))},
                       !.added = Append(@, NewAttachment(a, l, Head(files)))])

upload_attachments(a, l, files) ==
    IF ~get_current_user(a) THEN Fail("upload", a, l, "inactive")
    ELSE IF ~Exists(l) THEN Fail("upload", a, l, "not_found")
    ELSE IF ~check_file_permissions(a, l) THEN Fail("upload", a, l, "forbidden")
    ELSE LET st == UploadLoop(files, a, l,
                              [raised |-> FALSE, stored |-> {}, added |-> <<>>])
         IN  /\ blobs' = blobs \cup st.stored
             /\ IF st.raised
                THEN /\ Respond("upload", a, l, "bad_request")
                     /\ UNCHANGED attachments
                ELSE /\ Len(attachments) + Len(st.added) <= MaxAttachments
                     /\ attachments' = attachments \o st.added
                     /\ Respond("upload", a, l, "ok")
             /\ UNCHANGED <<facilities, users, specializations, logs,
                            specialist_notifications, specialist_read, notifications, comments, pending>>

\* i: the attachment's row.
delete_attachment(a, i) ==
    IF ~get_current_user(a) THEN FailAt("delete_attachment", a, NULL, "inactive", i)
    ELSE IF i \notin DOMAIN attachments
         THEN FailAt("delete_attachment", a, NULL, "not_found", i)
    ELSE LET l == attachments[i].mentorship_log_id IN
         IF ~check_file_permissions(a, l)
         THEN FailAt("delete_attachment", a, l, "forbidden", i)
         ELSE /\ blobs' = blobs \ {attachments[i].file_path}
              /\ attachments' = RemoveAt(attachments, i)
              /\ RespondAt("delete_attachment", a, l, "ok", i)
              /\ UNCHANGED <<facilities, users, specializations, logs,
                             specialist_notifications, specialist_read, notifications, comments, pending>>

-----------------------------------------------------------------------------
(* follow_ups.py: a follow-up is named by its log and its place in the      *)
(* log's follow_ups.                                                        *)

\* FollowUpCreate bodies (with mentorship_log_id) and FollowUpUpdate bodies.
Assignees == {NULL, "m2"}
FollowUpCreates == [assigned_to : Assignees]
FollowUpUpdates == [status : Optional(FollowUpStatus), assigned_to : Optional(Assignees)]

ExistsFollowUp(l, i) == Exists(l) /\ i \in DOMAIN logs[l].follow_ups

\* Mutant: mentors may manage the follow-ups of every log.
check_follow_up_permissions_open(a, l) == TRUE

\* check_follow_up_permissions
check_follow_up_permissions(a, l) ==
    IF users[a].role \in {"admin", "supervisor"} THEN TRUE
    ELSE logs[l].mentor_id = a

\* Mutant: the assigned user has no right to update.
check_follow_up_update_permissions_unassigned(a, l, i) ==
    \/ users[a].role \in {"admin", "supervisor"}
    \/ logs[l].mentor_id = a

\* check_follow_up_update_permissions
check_follow_up_update_permissions(a, l, i) ==
    IF users[a].role \in {"admin", "supervisor"} THEN TRUE
    ELSE IF logs[l].mentor_id = a THEN TRUE
    ELSE logs[l].follow_ups[i].assigned_to = a

create_follow_up(a, l, body) ==
    IF ~get_current_user(a) THEN Fail("create_follow_up", a, l, "inactive")
    ELSE IF ~Exists(l) THEN Fail("create_follow_up", a, l, "not_found")
    ELSE IF ~check_follow_up_permissions(a, l)
         THEN Fail("create_follow_up", a, l, "forbidden")
    ELSE /\ Len(logs[l].follow_ups) < MaxFollowUps
         /\ logs' = [logs EXCEPT ![l].follow_ups = Append(@, NewFollowUp(body))]
         /\ RespondAt("create_follow_up", a, l, "ok", Len(logs[l].follow_ups) + 1)
         /\ UNCHANGED <<facilities, attachments, blobs, users, specializations,
                        specialist_notifications, specialist_read, notifications, comments, pending>>

\* setattr for every field the body sets
ApplyFollowUpUpdate(fu, body) ==
    [fu EXCEPT !.status = IF body.status.set THEN body.status.value ELSE @,
               !.assigned_to = IF body.assigned_to.set
                               THEN body.assigned_to.value ELSE @]

\* The three update handlers differ in the write only; change(fu) is the write.
FollowUpWrite(op, a, l, i, change(_)) ==
    IF ~get_current_user(a) THEN FailAt(op, a, l, "inactive", i)
    ELSE IF ~ExistsFollowUp(l, i) THEN FailAt(op, a, l, "not_found", i)
    ELSE IF ~check_follow_up_update_permissions(a, l, i)
         THEN FailAt(op, a, l, "forbidden", i)
    ELSE /\ logs' = [logs EXCEPT ![l].follow_ups[i] = change(@)]
         /\ RespondAt(op, a, l, "ok", i)
         /\ UNCHANGED <<facilities, attachments, blobs, users, specializations,
                        specialist_notifications, specialist_read, notifications, comments, pending>>

update_follow_up(a, l, i, body) ==
    FollowUpWrite("update_follow_up", a, l, i, LAMBDA fu : ApplyFollowUpUpdate(fu, body))

mark_follow_up_in_progress(a, l, i) ==
    FollowUpWrite("mark_in_progress", a, l, i,
                  LAMBDA fu : [fu EXCEPT !.status = "in_progress"])

mark_follow_up_completed(a, l, i) ==
    FollowUpWrite("mark_completed", a, l, i,
                  LAMBDA fu : [fu EXCEPT !.status = "completed", !.completed_at = NOW])

delete_follow_up(a, l, i) ==
    IF ~get_current_user(a) THEN FailAt("delete_follow_up", a, l, "inactive", i)
    ELSE IF ~ExistsFollowUp(l, i) THEN FailAt("delete_follow_up", a, l, "not_found", i)
    ELSE IF ~check_follow_up_permissions(a, l)
         THEN FailAt("delete_follow_up", a, l, "forbidden", i)
    ELSE /\ logs' = [logs EXCEPT ![l].follow_ups = RemoveAt(@, i)]
         /\ RespondAt("delete_follow_up", a, l, "ok", i)
         /\ UNCHANGED <<facilities, attachments, blobs, users, specializations,
                        specialist_notifications, specialist_read, notifications, comments, pending>>

-----------------------------------------------------------------------------
(* delete_user / delete_facility *)

\* require_role(UserRole.admin)
require_admin(a) == users[a].role = "admin"

\* "if user.mentorship_logs": the user is the mentor of some log.
user_has_logs(t) == \E l \in DOMAIN logs : logs[l].mentor_id = t

\* "if facility.mentorship_logs"
facility_has_logs(f) == \E l \in DOMAIN logs : logs[l].facility_id = f

\* db.delete(user) sets the foreign key of the user's comments and
\* specialist notifications to NULL; both columns are NOT NULL, so the
\* flush raises IntegrityError.
user_not_null_violation(t) ==
    \/ \E i \in DOMAIN comments : comments[i].user_id = t
    \/ \E x \in BagToSet(specialist_notifications) : x[2] = t

\* Rows that point at the user without an ORM relationship from User:
\* an enforced foreign key refuses the DELETE.
user_fk_violation(t, schema) ==
    /\ schema # "unenforced"
    /\ \/ \E i \in DOMAIN notifications : notifications[i].user_id = t
       \/ \E i \in DOMAIN attachments : attachments[i].uploaded_by = t

\* db.delete(user) on the one-to-many relationships without delete cascade
\* (approved_logs, follow_ups, mentees): the children's foreign key is set
\* to NULL.
NullifyUserInLog(log, t) ==
    [log EXCEPT
        !.approved_by = IF @ = t THEN NULL ELSE @,
        !.follow_ups = [i \in DOMAIN @ |->
                            [@[i] EXCEPT !.assigned_to = IF @ = t THEN NULL ELSE @]]]

NullifyMentees(t) ==
    [u \in DOMAIN users \ {t} |->
        [users[u] EXCEPT !.supervisor_id = IF @ = t THEN NULL ELSE @]]

UserRequest(op, a, t, result) ==
    resp' = [NoRequest EXCEPT !.op = op, !.actor = a, !.result = result,
                              !.target = t]

FailUser(op, a, t, result) ==
    /\ UserRequest(op, a, t, result)
    /\ UNCHANGED_store

\* t: the user_id of the path.
delete_user(a, t, schema) ==
    IF ~get_current_user(a) THEN FailUser("delete_user", a, t, "inactive")
    ELSE IF ~require_admin(a) THEN FailUser("delete_user", a, t, "forbidden")
    ELSE IF t \notin DOMAIN users THEN FailUser("delete_user", a, t, "not_found")
    ELSE IF user_has_logs(t) THEN FailUser("delete_user", a, t, "bad_request")
    ELSE IF user_not_null_violation(t) \/ user_fk_violation(t, schema)
         THEN FailUser("delete_user", a, t, "server_error")
    ELSE /\ users' = NullifyMentees(t)
         /\ logs' = [l \in DOMAIN logs |-> NullifyUserInLog(logs[l], t)]
         /\ specializations' = [specializations EXCEPT ![t] = {}]
         /\ UserRequest("delete_user", a, t, "ok")
         /\ UNCHANGED <<facilities, attachments, blobs, specialist_notifications, specialist_read,
                        notifications, comments, pending>>

\* f: the facility_id of the path.
delete_facility(a, f) ==
    IF ~get_current_user(a) THEN FailUser("delete_facility", a, f, "inactive")
    ELSE IF ~require_admin(a) THEN FailUser("delete_facility", a, f, "forbidden")
    ELSE IF f \notin facilities THEN FailUser("delete_facility", a, f, "not_found")
    ELSE IF facility_has_logs(f) THEN FailUser("delete_facility", a, f, "bad_request")
    ELSE /\ facilities' = facilities \ {f}
         /\ UserRequest("delete_facility", a, f, "ok")
         /\ UNCHANGED <<attachments, blobs, users, specializations, logs,
                        specialist_notifications, specialist_read, notifications, comments, pending>>

-----------------------------------------------------------------------------
(* update_user *)

\* UserUpdate bodies that set at most one of role, is_active, supervisor_id
\* and specializations; a field may be set to null.
NoUserUpdate ==
    [role |-> Unset, is_active |-> Unset, supervisor_id |-> Unset,
     specializations |-> Unset]

UserUpdates ==
    {NoUserUpdate}
    \cup {[NoUserUpdate EXCEPT !.role = Given(r)] : r \in UserRole \cup {NULL}}
    \cup {[NoUserUpdate EXCEPT !.is_active = Given(b)] : b \in BOOLEAN}
    \cup {[NoUserUpdate EXCEPT !.supervisor_id = Given(x)] : x \in {"s1", "m2", NULL}}
    \cup {[NoUserUpdate EXCEPT !.specializations = Given(x)] :
            x \in {<<>>, <<"PMTCT">>}}

\* '"role" in update_data and update_data["role"] is not None'
sets_role(body) == body.role.set /\ body.role.value # NULL

\* Mutant: supervisors may change roles.
check_user_update_permissions_role_open(a, t, body) ==
    IF users[a].role = "admin" THEN TRUE
    ELSE IF users[a].role = "supervisor" THEN users[t].role = "mentor"
    ELSE a = t /\ ~sets_role(body)

\* check_user_update_permissions
check_user_update_permissions(a, t, body) ==
    IF users[a].role = "admin" THEN TRUE
    ELSE IF users[a].role = "supervisor"
         THEN ~sets_role(body) /\ users[t].role = "mentor"
    ELSE a = t /\ ~sets_role(body)

\* "Invalid supervisor_id. Must be an existing supervisor."
supervisor_id_invalid(body) ==
    /\ body.supervisor_id.set /\ body.supervisor_id.value # NULL
    /\ ~(/\ body.supervisor_id.value \in DOMAIN users
         /\ users[body.supervisor_id.value].role = "supervisor")

\* setattr for every field of update_dict
ApplyUserUpdate(user, body) ==
    [user EXCEPT
        !.role = IF body.role.set THEN body.role.value ELSE @,
        !.is_active = IF body.is_active.set THEN body.is_active.value ELSE @,
        !.supervisor_id = IF body.supervisor_id.set THEN body.supervisor_id.value ELSE @]

\* model_dump(exclude_unset=True): the fields the body carries.
FieldsSet(body) == {f \in DOMAIN body : body[f].set}

UpdateRequest(a, t, result, body) ==
    resp' = [NoRequest EXCEPT !.op = "update_user", !.actor = a, !.target = t,
                              !.result = result, !.fields = FieldsSet(body)]

FailUpdate(a, t, result, body) ==
    /\ UpdateRequest(a, t, result, body)
    /\ UNCHANGED_store

update_user(a, t, body) ==
    IF ~get_current_user(a) THEN FailUpdate(a, t, "inactive", body)
    ELSE IF t \notin DOMAIN users THEN FailUpdate(a, t, "not_found", body)
    ELSE IF ~check_user_update_permissions(a, t, body)
         THEN FailUpdate(a, t, "forbidden", body)
    ELSE IF supervisor_id_invalid(body) THEN FailUpdate(a, t, "bad_request", body)
    ELSE IF body.role.set /\ body.role.value = NULL
         THEN \* role is NOT NULL: the commit raises IntegrityError
              FailUpdate(a, t, "server_error", body)
    ELSE /\ users' = [users EXCEPT ![t] = ApplyUserUpdate(@, body)]
         /\ specializations' =
                IF body.specializations.set
                THEN [specializations EXCEPT ![t] = Range(body.specializations.value)]
                ELSE specializations
         /\ UpdateRequest(a, t, "ok", body)
         /\ UNCHANGED <<facilities, attachments, blobs, logs,
                        specialist_notifications, specialist_read, notifications, comments, pending>>

-----------------------------------------------------------------------------
(* register, and requests without a valid credential *)

\* UserCreate bodies: email and role.
Registrations ==
    [email : {EmailOf("m1"), EmailOf("n1")}, role : UserRole]

\* uuid4 primary keys: a new user's id is no id the store holds anywhere.
FreshUserIds ==
    SpareUserIds \ (DOMAIN users
                    \cup {notifications[i].user_id : i \in DOMAIN notifications}
                    \cup {attachments[i].uploaded_by : i \in DOMAIN attachments})

\* "Email already registered"
email_registered(email) == \E u \in DOMAIN users : users[u].email = email

\* The endpoint has no get_current_user dependency: the request has no actor.
register(body) ==
    IF email_registered(body.email)
    THEN /\ resp' = [NoRequest EXCEPT !.op = "register", !.result = "bad_request"]
         /\ UNCHANGED_store
    ELSE \E n \in FreshUserIds :
         /\ users' = [u \in DOMAIN users \cup {n} |->
                        IF u = n THEN NewUser(body.email, body.role, NULL, TRUE)
                        ELSE users[u]]
         /\ specializations' = [u \in DOMAIN specializations \cup {n} |->
                                    IF u = n THEN {} ELSE specializations[u]]
         /\ resp' = [NoRequest EXCEPT !.op = "register", !.result = "ok", !.target = n]
         /\ UNCHANGED <<facilities, attachments, blobs, logs,
                        specialist_notifications, specialist_read, notifications, comments, pending>>

\* The endpoints that depend on get_current_user.
AuthenticatedOps ==
    {"create", "update", "submit", "approve", "return_to_draft", "reject", "delete",
     "create_comment", "upload", "delete_attachment", "create_follow_up",
     "update_follow_up", "mark_in_progress", "mark_completed", "delete_follow_up",
     "update_user", "delete_user", "delete_facility"}

\* get_current_user with a missing or invalid token, or the token of a user
\* that is not in the table: 401 before the handler runs.
unauthenticated_request(op) ==
    /\ resp' = [NoRequest EXCEPT !.op = op, !.result = "unauthorized"]
    /\ UNCHANGED_store

-----------------------------------------------------------------------------
(* The workflow specification: every handler of mentorship_logs.py that    *)
(* changes a log's status or fields, called by every user; the bodies      *)
(* carry every thematic_areas list and no nested lists.                    *)

Next ==
    \/ \E a \in UserIds, areas \in AreaLists :
            create_mentorship_log(a, areas, <<>>, <<>>)
    \/ \E a \in UserIds, l \in LogIds : update_mentorship_log(a, l, AreaUpdates)
    \/ \E a \in UserIds, l \in LogIds : submit_mentorship_log(a, l)
    \/ \E a \in UserIds, l \in LogIds : approve_mentorship_log(a, l)
    \/ \E a \in UserIds, l \in LogIds : return_log_to_draft(a, l)
    \/ \E a \in UserIds, l \in LogIds, reason \in Reasons :
            reject_mentorship_log(a, l, reason)

Spec == Init /\ [][Next]_vars

-----------------------------------------------------------------------------
(* The editing specification: the same handlers, with bodies that carry    *)
(* nested skills_transfers / follow_ups lists.                             *)

NextEdit ==
    \/ \E a \in UserIds, areas \in ShortAreaLists, sts \in ItemLists, fus \in FollowUpLists :
            create_mentorship_log(a, areas, sts, fus)
    \/ \E a \in UserIds, l \in LogIds : update_mentorship_log(a, l, NestedUpdates)
    \/ \E a \in UserIds, l \in LogIds : submit_mentorship_log(a, l)
    \/ \E a \in UserIds, l \in LogIds : approve_mentorship_log(a, l)
    \/ \E a \in UserIds, l \in LogIds : return_log_to_draft(a, l)
    \/ \E a \in UserIds, l \in LogIds : reject_mentorship_log(a, l, <<"r">>)

SpecEdit == Init /\ [][NextEdit]_vars

-----------------------------------------------------------------------------
(* The access specification: logs of every status and thematic_areas list, *)
(* read and commented on by every user.                                    *)

NextAccess ==
    \/ \E a \in UserIds, areas \in AreaLists :
            create_mentorship_log(a, areas, <<>>, <<>>)
    \/ \E a \in UserIds, l \in LogIds : submit_mentorship_log(a, l)
    \/ \E a \in UserIds, l \in LogIds : approve_mentorship_log(a, l)
    \/ \E a \in UserIds, l \in LogIds : return_log_to_draft(a, l)
    \/ \E a \in UserIds, l \in LogIds : get_mentorship_log(a, l)
    \/ \E a \in UserIds : list_mentorship_logs(a)
    \/ \E a \in UserIds, l \in LogIds : get_log_comments(a, l)
    \/ \E a \in UserIds, l \in LogIds : create_log_comment(a, l, FALSE)

SpecAccess == Init /\ [][NextAccess]_vars

-----------------------------------------------------------------------------
(* The deletion specification: logs of every status with comments,         *)
(* attachments and nested follow-ups, deleted by every user.               *)

SingleFiles == {<<f>> : f \in Files}

NextDelete ==
    \/ \E a \in UserIds, areas \in ShortAreaLists, fus \in FollowUpLists :
            create_mentorship_log(a, areas, <<>>, fus)
    \/ \E a \in UserIds, l \in LogIds : submit_mentorship_log(a, l)
    \/ \E a \in UserIds, l \in LogIds : approve_mentorship_log(a, l)
    \/ \E a \in UserIds, l \in LogIds, schema \in Schemas :
            delete_mentorship_log(a, l, schema)
    \/ \E a \in UserIds, l \in LogIds : create_log_comment(a, l, FALSE)
    \/ \E a \in UserIds, l \in LogIds, files \in SingleFiles :
            upload_attachments(a, l, files)

SpecDelete == Init /\ [][NextDelete]_vars

-----------------------------------------------------------------------------
(* The children specification: follow-ups and attachments of draft logs,   *)
(* managed by every user.                                                  *)

NextChildren ==
    \/ \E a \in UserIds, fus \in FollowUpLists :
            create_mentorship_log(a, <<>>, <<>>, fus)
    \/ \E a \in UserIds, l \in LogIds, files \in FileLists :
            upload_attachments(a, l, files)
    \/ \E a \in UserIds, i \in 1..MaxAttachments : delete_attachment(a, i)
    \/ \E a \in UserIds, l \in LogIds, body \in FollowUpCreates :
            create_follow_up(a, l, body)
    \/ \E a \in UserIds, l \in LogIds, i \in 1..MaxFollowUps, body \in FollowUpUpdates :
            update_follow_up(a, l, i, body)
    \/ \E a \in UserIds, l \in LogIds, i \in 1..MaxFollowUps :
            mark_follow_up_in_progress(a, l, i)
    \/ \E a \in UserIds, l \in LogIds, i \in 1..MaxFollowUps :
            mark_follow_up_completed(a, l, i)
    \/ \E a \in UserIds, l \in LogIds, i \in 1..MaxFollowUps :
            delete_follow_up(a, l, i)

SpecChildren == Init /\ [][NextChildren]_vars

-----------------------------------------------------------------------------
(* The references specification: logs that refer to users and facilities,  *)
(* and the deletion of users and facilities by every user.                 *)

NextRefs ==
    \/ \E a \in DOMAIN users, fus \in FollowUpLists :
            create_mentorship_log(a, <<>>, <<>>, fus)
    \/ \E a \in DOMAIN users, l \in LogIds : submit_mentorship_log(a, l)
    \/ \E a \in DOMAIN users, l \in LogIds : approve_mentorship_log(a, l)
    \/ \E a \in DOMAIN users, t \in UserIds, schema \in Schemas :
            delete_user(a, t, schema)
    \/ \E a \in DOMAIN users, f \in FacilityIds : delete_facility(a, f)

SpecRefs == Init /\ [][NextRefs]_vars

-----------------------------------------------------------------------------
(* The users specification: registration and the update of users by every  *)
(* user, with and without a credential.                                    *)

UpdateTargets == {"m1", "s1"}

\* Bodies that carry role or supervisor_id, or nothing.
RoleUpdates == {b \in UserUpdates : ~b.is_active.set /\ ~b.specializations.set}

NextUsers ==
    \/ \E a \in DOMAIN users, t \in UpdateTargets, body \in RoleUpdates :
            update_user(a, t, body)
    \/ \E body \in Registrations : register(body)
    \/ \E op \in AuthenticatedOps : unauthenticated_request(op)

SpecUsers == Init /\ [][NextUsers]_vars

-----------------------------------------------------------------------------
(* notifications.py *)

\* MarkNotificationReadRequest.notification_ids: the ids that name rows of
\* the notifications table and those that name rows of the
\* specialist_notifications table (a row of the bag stands for its id).
NotificationRows == {<<"L1", "m2", "PMTCT">>, <<"L1", "s1", "TB/HIV">>}

NotificationIdLists ==
    [notification : SUBSET NotificationIds, specialist : SUBSET NotificationRows]

\* The path parameter of delete_notification: one id.
SingleNotificationIds ==
    {ids \in NotificationIdLists :
        Cardinality(ids.notification) + Cardinality(ids.specialist) = 1}

RespondIds(op, a, result, ids) ==
    resp' = [NoRequest EXCEPT !.op = op, !.actor = a, !.result = result,
                              !.ids = ids]

\* Mutant: the queries do not filter on the recipient.
is_recipient_any(a, user_id) == TRUE

\* "Notification.user_id == current_user.id" /
\* "SpecialistNotification.specialist_id == current_user.id"
is_recipient(a, user_id) == user_id = a

\* The values datetime.utcnow() gives the handlers of this router: read_at
\* is compared across requests, so two instants are told apart.
Instants == {"T1", "T2"}

NotAfter(s, t) == s = t \/ s = "T1"

\* datetime.utcnow() gives now: no stored read_at is later.
utcnow(now) ==
    /\ \A i \in DOMAIN notifications :
          notifications[i].read_at # NULL => NotAfter(notifications[i].read_at, now)
    /\ \A t \in DOMAIN specialist_read : NotAfter(specialist_read[t], now)

\* "notif.is_read = True; notif.read_at = datetime.utcnow()"
MarkRead(rows, now) ==
    [i \in DOMAIN notifications |->
        IF i \in rows
        THEN [notifications[i] EXCEPT !.is_read = TRUE, !.read_at = now]
        ELSE notifications[i]]

\* The same two assignments on rows of specialist_notifications.
MarkSpecialistRead(rows, now) ==
    [t \in DOMAIN specialist_read \cup rows |->
        IF t \in rows THEN now ELSE specialist_read[t]]

mark_notifications_read(a, ids, now) ==
    utcnow(now) /\
    IF ~get_current_user(a)
    THEN RespondIds("mark_read", a, "inactive", ids) /\ UNCHANGED_store
    ELSE LET unified_notifs ==
                {i \in DOMAIN notifications :
                    /\ notifications[i].id \in ids.notification
                    /\ is_recipient(a, notifications[i].user_id)}
             specialist_notifs ==
                {t \in BagToSet(specialist_notifications) :
                    t \in ids.specialist /\ is_recipient(a, t[2])}
             marked_count ==
                Cardinality(unified_notifs) + Cardinality(specialist_notifs)
         IN  IF marked_count = 0
             THEN RespondIds("mark_read", a, "not_found", ids) /\ UNCHANGED_store
             ELSE /\ notifications' = MarkRead(unified_notifs, now)
                  /\ specialist_read' = MarkSpecialistRead(specialist_notifs, now)
                  /\ RespondIds("mark_read", a, "ok", ids)
                  /\ UNCHANGED <<facilities, attachments, blobs, users,
                                 specializations, logs, specialist_notifications,
                                 comments, pending>>

mark_all_notifications_read(a, now) ==
    utcnow(now) /\
    IF ~get_current_user(a) THEN Fail("mark_all_read", a, NULL, "inactive")
    ELSE LET unified_notifs ==
                {i \in DOMAIN notifications :
                    /\ is_recipient(a, notifications[i].user_id)
                    /\ ~notifications[i].is_read}
             specialist_notifs ==
                {t \in BagToSet(specialist_notifications) :
                    is_recipient(a, t[2]) /\ t \notin DOMAIN specialist_read}
         IN  /\ notifications' = MarkRead(unified_notifs, now)
             /\ specialist_read' = MarkSpecialistRead(specialist_notifs, now)
             /\ Respond("mark_all_read", a, NULL, "ok")
             /\ UNCHANGED <<facilities, attachments, blobs, users,
                            specializations, logs, specialist_notifications,
                            comments, pending>>

delete_notification(a, ids) ==
    IF ~get_current_user(a)
    THEN RespondIds("delete_notification", a, "inactive", ids) /\ UNCHANGED_store
    ELSE LET notification ==
                {i \in DOMAIN notifications :
                    /\ notifications[i].id \in ids.notification
                    /\ is_recipient(a, notifications[i].user_id)}
             specialist_notif ==
                {t \in BagToSet(specialist_notifications) :
                    t \in ids.specialist /\ is_recipient(a, t[2])}
         IN  IF notification # {}
             THEN /\ notifications' =
                        RemoveAt(notifications, CHOOSE i \in notification : TRUE)
                  /\ RespondIds("delete_notification", a, "ok", ids)
                  /\ UNCHANGED <<facilities, attachments, blobs, users,
                                 specializations, logs, specialist_notifications,
                                 specialist_read, comments, pending>>
             ELSE IF specialist_notif # {}
             THEN /\ specialist_notifications' =
                        specialist_notifications (-) SetToBag(specialist_notif)
                  /\ specialist_read' =
                        [t \in DOMAIN specialist_read \cap BagToSet(
                            specialist_notifications (-) SetToBag(specialist_notif)) |->
                                specialist_read[t]]
                  /\ RespondIds("delete_notification", a, "ok", ids)
                  /\ UNCHANGED <<facilities, attachments, blobs, users,
                                 specializations, logs, notifications, comments, pending>>
             ELSE RespondIds("delete_notification", a, "not_found", ids)
                  /\ UNCHANGED_store

-----------------------------------------------------------------------------
(* The notifications specification: a log whose submission notifies two    *)
(* specialists and whose approval notifies its mentor; every user marks    *)
(* and deletes notifications by every id.                                  *)

NotifyingAreaLists == {<<"PMTCT", "TB/HIV">>}

NextNotify ==
    \/ \E areas \in NotifyingAreaLists :
            create_mentorship_log("m1", areas, <<>>, <<>>)
    \/ \E l \in LogIds : submit_mentorship_log("m1", l)
    \/ \E l \in LogIds : approve_mentorship_log("s1", l)
    \/ \E a \in UserIds, ids \in NotificationIdLists, now \in Instants :
            mark_notifications_read(a, ids, now)
    \/ \E a \in UserIds, now \in Instants : mark_all_notifications_read(a, now)
    \/ \E a \in UserIds, ids \in SingleNotificationIds :
            delete_notification(a, ids)

SpecNotify == Init /\ [][NextNotify]_vars

-----------------------------------------------------------------------------
(* deactivate_user / activate_user *)

\* The body of both handlers: load the user, write is_active, commit.
set_is_active(op, a, t, value) ==
    IF ~get_current_user(a) THEN FailUser(op, a, t, "inactive")
    ELSE IF ~require_admin(a) THEN FailUser(op, a, t, "forbidden")
    ELSE IF t \notin DOMAIN users THEN FailUser(op, a, t, "not_found")
    ELSE /\ users' = [users EXCEPT ![t].is_active = value]
         /\ UserRequest(op, a, t, "ok")
         /\ UNCHANGED <<facilities, attachments, blobs, specializations, logs,
                        specialist_notifications, specialist_read,
                        notifications, comments, pending>>

deactivate_user(a, t) == set_is_active("deactivate_user", a, t, FALSE)

activate_user(a, t) == set_is_active("activate_user", a, t, TRUE)

-----------------------------------------------------------------------------
(* The activation specification: users are deactivated and activated, by   *)
(* the two handlers and by update bodies that carry is_active, while they  *)
(* go on using their tokens on a log.                                      *)

ActivationTargets == {"m1", "s1"}

\* Bodies that carry is_active, or nothing.
IsActiveUpdates ==
    {b \in UserUpdates :
        ~b.role.set /\ ~b.supervisor_id.set /\ ~b.specializations.set}

NextActive ==
    \/ \E a \in UserIds, t \in ActivationTargets : deactivate_user(a, t)
    \/ \E a \in UserIds, t \in ActivationTargets : activate_user(a, t)
    \/ \E a \in UserIds, t \in ActivationTargets, body \in IsActiveUpdates :
            update_user(a, t, body)
    \/ \E a \in ActivationTargets : create_mentorship_log(a, <<>>, <<>>, <<>>)
    \/ \E a \in ActivationTargets, l \in LogIds : submit_mentorship_log(a, l)
    \/ \E a \in ActivationTargets, l \in LogIds : approve_mentorship_log(a, l)
    \/ \E a \in ActivationTargets, l \in LogIds : get_mentorship_log(a, l)
    \/ \E a \in ActivationTargets, now \in Instants :
            mark_all_notifications_read(a, now)

SpecActive == Init /\ [][NextActive]_vars

-----------------------------------------------------------------------------
(* Concurrent review requests.  The handlers are plain "def" functions,    *)
(* which FastAPI runs in a thread pool, each with its own Session           *)
(* (get_db): approve, return-to-draft and reject load the log with         *)
(* db.query(...).first(), check the status of the row they loaded and      *)
(* write at db.commit().  No row lock (with_for_update), version column or *)
(* isolation level is configured, so the UPDATE of a second request is     *)
(* applied to whatever row the first one left.                             *)

ReviewOps == {"approve", "return_to_draft", "reject"}

\* The first statement of the three handlers, after require_role: the
\* request now holds the row as it loaded it.
load_log(op, a, l, reason) ==
    /\ Cardinality(pending) < MaxInFlight
    /\ get_current_user(a) /\ require_supervisor_or_admin(a)
    /\ Exists(l)
    /\ pending' = pending \cup
            {[op |-> op, actor |-> a, log |-> l, reason |-> reason,
              status |-> logs[l].status]}
    /\ UNCHANGED <<facilities, attachments, blobs, users, specializations, logs,
                   specialist_notifications, specialist_read, notifications,
                   comments, resp>>

\* A request that ends in an HTTPException after its load.
Abort(req, result) ==
    /\ RespondFull(req.op, req.actor, req.log, result, {}, Unset)
    /\ pending' = pending \ {req}
    /\ UNCHANGED <<facilities, attachments, blobs, users, specializations, logs,
                   specialist_notifications, specialist_read, notifications,
                   comments>>

\* The rest of approve_mentorship_log: the checks read the loaded row, the
\* commit writes the columns the handler assigned.
finish_approve(req) ==
    /\ req \in pending /\ req.op = "approve" /\ Exists(req.log)
    /\ IF ~can_approve_log(req.actor, req.log) THEN Abort(req, "forbidden")
       ELSE IF req.status # "submitted" THEN Abort(req, "bad_request")
       ELSE /\ logs' = [logs EXCEPT ![req.log].status = "approved",
                                     ![req.log].approved_at = NOW,
                                     ![req.log].approved_by = req.actor]
            /\ IF logs[req.log].mentor_id # req.actor
               THEN /\ Len(notifications) < MaxNotifications
                    /\ notifications' = Append(notifications,
                          NewNotification(logs[req.log].mentor_id, "approval",
                                          req.log, Unset))
               ELSE UNCHANGED notifications
            /\ Respond("approve", req.actor, req.log, "ok")
            /\ pending' = pending \ {req}
            /\ UNCHANGED <<facilities, attachments, blobs, users, specializations,
                           specialist_notifications, specialist_read, comments>>

\* The rest of return_log_to_draft.
finish_return_to_draft(req) ==
    /\ req \in pending /\ req.op = "return_to_draft" /\ Exists(req.log)
    /\ IF req.status # "submitted" THEN Abort(req, "bad_request")
       ELSE /\ logs' = [logs EXCEPT ![req.log].status = "draft",
                                     ![req.log].submitted_at = NULL]
            /\ Respond("return_to_draft", req.actor, req.log, "ok")
            /\ pending' = pending \ {req}
            /\ UNCHANGED <<facilities, attachments, blobs, users, specializations,
                           specialist_notifications, specialist_read,
                           notifications, comments>>

\* The rest of reject_mentorship_log.
finish_reject(req) ==
    /\ req \in pending /\ req.op = "reject" /\ Exists(req.log)
    /\ IF req.status # "submitted" THEN Abort(req, "bad_request")
       ELSE IF reason_missing(req.reason) THEN Abort(req, "bad_request")
       ELSE /\ logs' = [logs EXCEPT ![req.log].status = "draft",
                                     ![req.log].rejected_at = NOW,
                                     ![req.log].rejection_reason = Given(req.reason),
                                     ![req.log].submitted_at = NULL]
            /\ IF logs[req.log].mentor_id # req.actor
               THEN /\ Len(notifications) < MaxNotifications
                    /\ notifications' = Append(notifications,
                          NewNotification(logs[req.log].mentor_id, "rejection",
                                          req.log, Given(req.reason)))
               ELSE UNCHANGED notifications
            /\ RespondFull("reject", req.actor, req.log, "ok", {}, Given(req.reason))
            /\ pending' = pending \ {req}
            /\ UNCHANGED <<facilities, attachments, blobs, users, specializations,
                           specialist_notifications, specialist_read, comments>>

-----------------------------------------------------------------------------
(* The concurrency specification: m1's log is submitted and its supervisor *)
(* and the admin review it with requests that overlap.                     *)

Reviewers == {"s1", "ad"}

NextRace ==
    \/ create_mentorship_log("m1", <<>>, <<>>, <<>>)
    \/ \E l \in LogIds : submit_mentorship_log("m1", l)
    \/ \E op \in ReviewOps, a \in Reviewers, l \in LogIds :
            load_log(op, a, l, <<"r">>)
    \/ \E req \in pending : finish_approve(req)
    \/ \E req \in pending : finish_return_to_draft(req)
    \/ \E req \in pending : finish_reject(req)

SpecRace == Init /\ [][NextRace]_vars

-----------------------------------------------------------------------------
(* get_my_notifications *)

\* The NotificationResponse built from a row of the notifications table.
UnifiedResponse(n) ==
    [id |-> <<n.id>>, user_id |-> n.user_id,
     notification_type |-> n.notification_type,
     related_log_id |-> n.related_log_id,
     facility_name |-> n.facility_name,
     is_read |-> n.is_read, read_at |-> n.read_at]

\* The NotificationResponse built from a row of specialist_notifications
\* and the log the handler loads for it.
SpecialistResponse(t) ==
    [id |-> t, user_id |-> t[2], notification_type |-> "specialist_log",
     related_log_id |-> t[1],
     facility_name |-> logs[t[1]].facility_id,
     is_read |-> t \in DOMAIN specialist_read,
     read_at |-> IF t \in DOMAIN specialist_read THEN specialist_read[t] ELSE NULL]

\* "if log:" a row of specialist_notifications is listed when its log exists.
SpecialistListed(t) == Exists(t[1])

\* The list the handler returns to a.
my_notifications(a, unread_only) ==
    {UnifiedResponse(notifications[i]) :
        i \in {j \in DOMAIN notifications :
                /\ notifications[j].user_id = a
                /\ unread_only => ~notifications[j].is_read}}
    \cup
    {SpecialistResponse(t) :
        t \in {x \in BagToSet(specialist_notifications) :
                /\ x[2] = a
                /\ unread_only => x \notin DOMAIN specialist_read
                /\ SpecialistListed(x)}}

get_my_notifications(a, unread_only) ==
    /\ UNCHANGED_store
    /\ IF ~get_current_user(a)
       THEN RespondItems("get_my_notifications", a, "inactive", {})
       ELSE RespondItems("get_my_notifications", a, "ok",
                         my_notifications(a, unread_only))

-----------------------------------------------------------------------------
(* The inbox specification: a log is submitted and approved, which         *)
(* notifies a specialist and its mentor, and is then deleted, under every  *)
(* database build; every user reads their notifications.                   *)

NextInbox ==
    \/ \E areas \in ShortAreaLists : create_mentorship_log("m1", areas, <<>>, <<>>)
    \/ \E a \in UserIds, l \in LogIds : submit_mentorship_log(a, l)
    \/ \E a \in UserIds, l \in LogIds : approve_mentorship_log(a, l)
    \/ \E a \in UserIds, l \in LogIds, schema \in Schemas :
            delete_mentorship_log(a, l, schema)
    \/ \E a \in UserIds, unread_only \in BOOLEAN :
            get_my_notifications(a, unread_only)

SpecInbox == Init /\ [][NextInbox]_vars

-----------------------------------------------------------------------------
(* The comments specification: every user comments on m1's log, with and   *)
(* without is_specialist_comment in the body.                              *)

NextComments ==
    \/ \E areas \in ShortAreaLists : create_mentorship_log("m1", areas, <<>>, <<>>)
    \/ \E l \in LogIds : submit_mentorship_log("m1", l)
    \/ \E a \in UserIds, l \in LogIds : get_log_comments(a, l)
    \/ \E a \in UserIds, l \in LogIds, flag \in BOOLEAN :
            create_log_comment(a, l, flag)

SpecComments == Init /\ [][NextComments]_vars

-----------------------------------------------------------------------------
(* The read handlers of attachments.py and follow_ups.py *)

list_attachments(a, l) ==
    /\ UNCHANGED_store
    /\ IF ~get_current_user(a) THEN Respond("list_attachments", a, l, "inactive")
       ELSE IF ~Exists(l) THEN Respond("list_attachments", a, l, "not_found")
       ELSE Respond("list_attachments", a, l, "ok")

\* i: the attachment's row. found: whether the bucket delivers the file;
\* it cannot deliver a file it does not hold.
download_attachment(a, i, found) ==
    /\ UNCHANGED_store
    /\ IF ~get_current_user(a)
       THEN RespondAt("download_attachment", a, NULL, "inactive", i)
       ELSE IF i \notin DOMAIN attachments
            THEN RespondAt("download_attachment", a, NULL, "not_found", i)
       ELSE IF ~found \/ attachments[i].file_path \notin blobs
            THEN RespondAt("download_attachment", a,
                           attachments[i].mentorship_log_id, "not_found", i)
       ELSE RespondAt("download_attachment", a,
                      attachments[i].mentorship_log_id, "ok", i)

\* raised: whether storage_service.get_public_url raises.
get_attachment_url(a, i, raised) ==
    /\ UNCHANGED_store
    /\ IF ~get_current_user(a)
       THEN RespondAt("get_attachment_url", a, NULL, "inactive", i)
       ELSE IF i \notin DOMAIN attachments
            THEN RespondAt("get_attachment_url", a, NULL, "not_found", i)
       ELSE IF raised
            THEN RespondAt("get_attachment_url", a,
                           attachments[i].mentorship_log_id, "server_error", i)
       ELSE RespondAt("get_attachment_url", a,
                      attachments[i].mentorship_log_id, "ok", i)

\* Every follow-up row, named by its log and its place in the log.
AllFollowUps == {<<l, i>> \in LogIds \X (1..(MaxFollowUps + 1)) : ExistsFollowUp(l, i)}

\* list_follow_ups without the optional filters: a mentor gets the
\* follow-ups of the mentor's own logs and those assigned to the mentor.
list_follow_ups(a) ==
    /\ UNCHANGED_store
    /\ IF ~get_current_user(a) THEN RespondItems("list_follow_ups", a, "inactive", {})
       ELSE IF users[a].role = "mentor"
            THEN RespondItems("list_follow_ups", a, "ok",
                    {f \in AllFollowUps :
                        \/ logs[f[1]].mentor_id = a
                        \/ logs[f[1]].follow_ups[f[2]].assigned_to = a})
       ELSE RespondItems("list_follow_ups", a, "ok", AllFollowUps)

get_follow_up(a, l, i) ==
    /\ UNCHANGED_store
    /\ IF ~get_current_user(a) THEN RespondAt("get_follow_up", a, l, "inactive", i)
       ELSE IF ~ExistsFollowUp(l, i) THEN RespondAt("get_follow_up", a, l, "not_found", i)
       ELSE RespondAt("get_follow_up", a, l, "ok", i)

-----------------------------------------------------------------------------
(* The reads specification: follow-ups and attachments of draft logs, read *)
(* by every user.                                                          *)

NextReads ==
    \/ \E a \in UserIds, fus \in FollowUpLists :
            create_mentorship_log(a, <<>>, <<>>, fus)
    \/ \E a \in UserIds, l \in LogIds, files \in SingleFiles :
            upload_attachments(a, l, files)
    \/ \E a \in UserIds, l \in LogIds : list_attachments(a, l)
    \/ \E a \in UserIds, i \in 1..MaxAttachments, found \in BOOLEAN :
            download_attachment(a, i, found)
    \/ \E a \in UserIds, i \in 1..MaxAttachments, raised \in BOOLEAN :
            get_attachment_url(a, i, raised)
    \/ \E a \in UserIds : list_follow_ups(a)
    \/ \E a \in UserIds, l \in LogIds, i \in 1..MaxFollowUps : get_follow_up(a, l, i)

SpecReads == Init /\ [][NextReads]_vars

-----------------------------------------------------------------------------
(* create_user *)

\* UserCreate bodies: email, role, supervisor_id and specializations.
UserCreates ==
    [email : {EmailOf("m1"), EmailOf("n1")}, role : UserRole,
     supervisor_id : {NULL, "s1", "m2"}, specializations : {<<>>, <<"PMTCT">>}]

CreateUserRequest(a, result, n) ==
    resp' = [NoRequest EXCEPT !.op = "create_user", !.actor = a,
                              !.result = result, !.target = n]

create_user(a, body) ==
    IF ~get_current_user(a)
    THEN CreateUserRequest(a, "inactive", NULL) /\ UNCHANGED_store
    ELSE IF ~require_admin(a)
    THEN CreateUserRequest(a, "forbidden", NULL) /\ UNCHANGED_store
    ELSE IF email_registered(body.email)
    THEN CreateUserRequest(a, "bad_request", NULL) /\ UNCHANGED_store
    ELSE IF /\ body.supervisor_id # NULL
            /\ ~(/\ body.supervisor_id \in DOMAIN users
                 /\ users[body.supervisor_id].role = "supervisor")
    THEN CreateUserRequest(a, "bad_request", NULL) /\ UNCHANGED_store
    ELSE \E n \in FreshUserIds :
         /\ users' = [u \in DOMAIN users \cup {n} |->
                        IF u = n
                        THEN NewUser(body.email, body.role, body.supervisor_id, TRUE)
                        ELSE users[u]]
         /\ specializations' = [u \in DOMAIN specializations \cup {n} |->
                                    IF u = n THEN Range(body.specializations)
                                    ELSE specializations[u]]
         /\ CreateUserRequest(a, "ok", n)
         /\ UNCHANGED <<facilities, attachments, blobs, logs,
                        specialist_notifications, specialist_read, notifications,
                        comments, pending>>

-----------------------------------------------------------------------------
(* The accounts specification: every way a user row is created or gets its *)
(* role.                                                                   *)

\* Bodies that carry role, or nothing.
RoleOnlyUpdates == {b \in RoleUpdates : ~b.supervisor_id.set}

NextAccounts ==
    \/ \E a \in DOMAIN users, body \in UserCreates : create_user(a, body)
    \/ \E body \in Registrations : register(body)
    \/ \E a \in DOMAIN users, t \in SpareUserIds, body \in RoleOnlyUpdates :
            update_user(a, t, body)

SpecAccounts == Init /\ [][NextAccounts]_vars

-----------------------------------------------------------------------------
(* Properties *)

\* The request recorded in resp' addressed an existing log.
OnLog(op) == resp'.op = op /\ resp'.log \in DOMAIN logs

LogsUntouched ==
    /\ logs' = logs
    /\ notifications' = notifications
    /\ specialist_notifications' = specialist_notifications

Blank(reason) == \A i \in DOMAIN reason : reason[i] = " "

\* C1: a log's status changes only draft -> submitted by submit, submitted ->
\* approved by approve, and submitted -> draft by return_to_draft or reject;
\* nothing moves a log out of approved; a log is created as draft and no log
\* ever has status completed.
C1_StatusTransitions ==
    [][/\ \A l \in DOMAIN logs :
            /\ l \in DOMAIN logs'
            /\ logs'[l].status # logs[l].status =>
                \/ /\ logs[l].status = "draft" /\ logs'[l].status = "submitted"
                   /\ resp'.op = "submit"
                \/ /\ logs[l].status = "submitted" /\ logs'[l].status = "approved"
                   /\ resp'.op = "approve"
                \/ /\ logs[l].status = "submitted" /\ logs'[l].status = "draft"
                   /\ resp'.op \in {"return_to_draft", "reject"}
       /\ \A l \in DOMAIN logs' \ DOMAIN logs : logs'[l].status = "draft"
       /\ \A l \in DOMAIN logs' : logs'[l].status # "completed"]_vars

\* C1 witness: return_to_draft was tried on an approved log, which stays approved.
C1_Witness ==
    /\ resp.op = "return_to_draft" /\ resp.result = "bad_request"
    /\ resp.log \in DOMAIN logs /\ logs[resp.log].status = "approved"

\* C2: an update by anyone but the log's mentor, or of a log that is not
\* draft, is rejected and changes neither the log nor its nested lists.
C2_UpdateOnlyOwnDraft ==
    [][OnLog("update") /\ users[resp'.actor].is_active =>
        IF /\ logs[resp'.log].mentor_id = resp'.actor
           /\ logs[resp'.log].status = "draft"
        THEN resp'.result = "ok"
        ELSE resp'.result \in {"forbidden", "bad_request"} /\ LogsUntouched]_vars

\* C2 witness: a supervisor or admin was refused the edit of a draft log that
\* has nested follow-ups.
C2_Witness ==
    /\ resp.op = "update" /\ resp.result = "forbidden"
    /\ users[resp.actor].role \in {"supervisor", "admin"}
    /\ resp.log \in DOMAIN logs
    /\ logs[resp.log].status = "draft"
    /\ logs[resp.log].follow_ups # <<>>

C4_SubmitDraft ==
    [][/\ OnLog("submit") /\ users[resp'.actor].is_active
       /\ logs[resp'.log].status = "draft"
       =>
        IF \/ logs[resp'.log].mentor_id = resp'.actor
           \/ users[resp'.actor].role \in {"supervisor", "admin"}
        THEN /\ resp'.result = "ok"
             /\ logs'[resp'.log].status = "submitted"
             /\ logs'[resp'.log].submitted_at # NULL
        ELSE resp'.result = "forbidden" /\ LogsUntouched]_vars

\* C5: approve, return_to_draft or reject of a log that is not submitted, and
\* submit of a log that is not draft, end in an error and leave the log, its
\* timestamps and all notifications unchanged.
C5_WrongSourceStatus ==
    [][\/ /\ resp'.op \in {"approve", "return_to_draft", "reject"}
          /\ resp'.log \in DOMAIN logs
          /\ logs[resp'.log].status # "submitted"
       \/ /\ OnLog("submit")
          /\ logs[resp'.log].status # "draft"
       =>
        /\ resp'.result \in {"bad_request", "forbidden", "inactive"}
        /\ LogsUntouched]_vars

\* C5 witness: approve of a draft log by an admin ended in an error.
C5_Witness ==
    /\ resp.op = "approve" /\ resp.result = "bad_request"
    /\ users[resp.actor].role = "admin"
    /\ resp.log \in DOMAIN logs /\ logs[resp.log].status = "draft"

\* C6: reject of a submitted log with an empty or whitespace-only reason
\* fails, changes no field of the log and creates no notification.
C6_RejectNeedsReason ==
    [][/\ OnLog("reject") /\ logs[resp'.log].status = "submitted"
       /\ Blank(resp'.reason.value)
       =>
        /\ resp'.result \in {"bad_request", "forbidden", "inactive"}
        /\ LogsUntouched]_vars

\* C6 witness: a supervisor's reject with a whitespace-only reason was refused.
C6_Witness ==
    /\ resp.op = "reject" /\ resp.result = "bad_request"
    /\ resp.reason = Given(<<" ">>)
    /\ users[resp.actor].role = "supervisor"
    /\ resp.log \in DOMAIN logs /\ logs[resp.log].status = "submitted"

\* can_view_log as the design states it: admin, any supervisor, the log's
\* mentor, or a specialization overlap on a submitted or approved log.
MayView(a, l) ==
    \/ users[a].role = "admin"
    \/ users[a].role = "supervisor"
    \/ logs[l].mentor_id = a
    \/ /\ logs[l].status \in {"submitted", "approved"}
       /\ \E area \in specializations[a] :
            \E i \in DOMAIN logs[l].thematic_areas : logs[l].thematic_areas[i] = area

\* The last request was made by an active user on an existing log.
Answered(op) ==
    /\ resp.op = op
    /\ resp.log \in DOMAIN logs
    /\ resp.result \in {"ok", "forbidden"}

\* C7: get_mentorship_log returns the log exactly when the actor is admin,
\* supervisor, the log's mentor, or overlaps it as a specialist while it is
\* submitted or approved.
C7_GetLogIffMayView ==
    Answered("get_log") => (resp.result = "ok" <=> MayView(resp.actor, resp.log))

\* C7 witness: a mentor who does not own the log got it through a
\* specialization overlap.
C7_Witness ==
    /\ Answered("get_log") /\ resp.result = "ok"
    /\ users[resp.actor].role = "mentor"
    /\ logs[resp.log].mentor_id # resp.actor

\* C8: a draft log is never exposed to an actor who is not admin, not
\* supervisor and not its mentor: not by get, not in the list, not through
\* reading or adding comments.
C8_DraftNeverSpecialistVisible ==
    \A l \in DOMAIN logs :
        /\ logs[l].status = "draft"
        /\ resp.actor \in UserIds
        /\ users[resp.actor].role = "mentor"
        /\ logs[l].mentor_id # resp.actor
        =>
        /\ ~(/\ resp.op \in {"get_log", "get_comments", "create_comment"}
             /\ resp.log = l
             /\ resp.result = "ok")
        /\ ~(resp.op = "list_logs" /\ l \in resp.items)

\* C9: reading a log's comments and adding a comment are allowed exactly
\* when the actor may view the log.
C9_CommentIffMayView ==
    Answered("get_comments") \/ Answered("create_comment")
        => (resp.result = "ok" <=> MayView(resp.actor, resp.log))

\* The specialist notifications design 4.4 asks for after actor x submits l.
FanOutTarget(l, x) ==
    {<<l, u, area>> : u \in {v \in UserIds : users[v].is_active /\ v # x},
                      area \in Range(logs[l].thematic_areas)}
        \cap {t \in {l} \X UserIds \X Areas : t[3] \in specializations[t[2]]}

\* C10: after a successful submit of l by x the specialist notifications of l
\* are exactly the triples (l, u, area) with area in l's thematic areas and u
\* an active holder of area other than x.
C10_FanOutExact ==
    resp.op = "submit" /\ resp.result = "ok" =>
        {t \in BagToSet(specialist_notifications) : t[1] = resp.log}
            = FanOutTarget(resp.log, resp.actor)

\* A submit of a draft log by a permitted actor for which some candidate
\* (log, specialist, area) is already in the specialist_notifications table.
SubmitMeetsNotified ==
    /\ OnLog("submit") /\ users[resp'.actor].is_active
    /\ logs[resp'.log].status = "draft"
    /\ \/ logs[resp'.log].mentor_id = resp'.actor
       \/ users[resp'.actor].role \in {"supervisor", "admin"}
    /\ \E i \in DOMAIN logs[resp'.log].thematic_areas, u \in UserIds \ {resp'.actor} :
            /\ users[u].is_active
            /\ logs[resp'.log].thematic_areas[i] \in specializations[u]
            /\ BagIn(<<resp'.log, u, logs[resp'.log].thematic_areas[i]>>,
                     specialist_notifications)

\* C11: the specialist_notifications table never holds two rows for the same
\* (log, specialist, thematic_area), whatever sequence of submit, return,
\* reject, edit and re-submit ran; and a submit that meets an already
\* notified triple answers without an error.
C11_OneNotificationPerTriple ==
    [][/\ \A t \in BagToSet(specialist_notifications') :
            CopiesIn(t, specialist_notifications') <= 1
       /\ SubmitMeetsNotified => resp'.result = "ok"]_vars

\* C11 witness: a re-submit met a row of the table, answered 200, and the
\* table holds that log's triple once.
C11_Witness ==
    /\ resp.op = "submit" /\ resp.result = "ok"
    /\ resp.log \in DOMAIN logs
    /\ logs[resp.log].status = "draft"
    /\ \E t \in BagToSet(specialist_notifications) :
            t[1] = resp.log /\ CopiesIn(t, specialist_notifications) = 1

\* The log of the request recorded in resp' and its children are as before.
LogAndChildrenRemain ==
    /\ resp'.log \in DOMAIN logs'
    /\ logs' = logs
    /\ comments' = comments
    /\ attachments' = attachments

\* C12: delete_mentorship_log removes a log only for an admin, or for the
\* log's mentor while the log is draft; a delete by anyone else (a supervisor,
\* another mentor) or of a mentor's own submitted or approved log is rejected
\* and the log and its children remain.
C12_DeleteGuard ==
    [][OnLog("delete") /\ users[resp'.actor].is_active =>
        \/ users[resp'.actor].role = "admin"
        \/ /\ logs[resp'.log].mentor_id = resp'.actor
           /\ logs[resp'.log].status = "draft"
        \/ /\ resp'.result \in {"forbidden", "bad_request"}
           /\ LogAndChildrenRemain]_vars

LogRefersToUser(t) ==
    \E l \in DOMAIN logs : logs[l].mentor_id = t \/ logs[l].approved_by = t

LogRefersToFacility(f) == \E l \in DOMAIN logs : logs[l].facility_id = f

\* C14: the deletion of a user or facility that a log refers to (a user as
\* the log's mentor or as its approved_by) is rejected and leaves users,
\* facilities and logs unchanged; every log's mentor and facility exist.
C14_ReferencedNotDeleted ==
    [][/\ resp'.op = "delete_user" /\ LogRefersToUser(resp'.target)
            => resp'.result # "ok" /\ users' = users /\ logs' = logs
       /\ resp'.op = "delete_facility" /\ LogRefersToFacility(resp'.target)
            => resp'.result # "ok" /\ facilities' = facilities /\ logs' = logs
       /\ \A l \in DOMAIN logs' :
            /\ logs'[l].mentor_id \in DOMAIN users'
            /\ logs'[l].facility_id \in facilities']_vars

\* can_list_logs as the design states it, for an actor who is not admin.
MayList(a, l) ==
    \/ logs[l].mentor_id = a
    \/ users[a].role = "supervisor" /\ users[logs[l].mentor_id].supervisor_id = a
    \/ /\ specializations[a] # {}
       /\ logs[l].status \in {"submitted", "approved"}
       /\ \E i \in DOMAIN logs[l].thematic_areas :
            logs[l].thematic_areas[i] \in specializations[a]

MayManageChildren(a, l) ==
    \/ users[a].role \in {"admin", "supervisor"}
    \/ users[a].role = "mentor" /\ logs[l].mentor_id = a

\* C16: creating or deleting a follow-up and uploading or deleting an
\* attachment on log L is allowed for an admin or supervisor on any log and
\* for a mentor on the mentor's own log; a mentor acting on another mentor's
\* log gets Forbidden and L's follow-ups and attachments are unchanged.
C16_ManageChildren ==
    [][/\ resp'.op \in {"create_follow_up", "delete_follow_up", "upload",
                        "delete_attachment"}
       /\ resp'.log \in DOMAIN logs
       /\ resp'.result \notin {"inactive", "not_found"}
       =>
        IF MayManageChildren(resp'.actor, resp'.log)
        THEN \/ resp'.result = "ok"
             \/ resp'.op = "upload" /\ resp'.result = "bad_request"
        ELSE /\ resp'.result = "forbidden"
             /\ logs' = logs /\ attachments' = attachments /\ blobs' = blobs]_vars

\* C16 witness: a mentor was refused a follow-up on another mentor's log.
C16_Witness ==
    /\ resp.op = "create_follow_up" /\ resp.result = "forbidden"
    /\ users[resp.actor].role = "mentor"
    /\ resp.log \in DOMAIN logs /\ logs[resp.log].mentor_id # resp.actor

\* can_update_followup as the design states it.
MayUpdateFollowUp(a, l, i) ==
    \/ users[a].role \in {"admin", "supervisor"}
    \/ logs[l].mentor_id = a
    \/ logs[l].follow_ups[i].assigned_to = a

\* C17: the generic update, mark-in-progress and mark-completed of a
\* follow-up succeed exactly for an admin or supervisor, the mentor of the
\* follow-up's log and the follow-up's assigned_to user; whoever may create
\* or delete the follow-up may update it; anyone else is rejected and the
\* follow-up is unchanged.
C17_UpdateFollowUp ==
    [][/\ resp'.op \in {"update_follow_up", "mark_in_progress", "mark_completed"}
       /\ resp'.log \in DOMAIN logs
       /\ resp'.index \in DOMAIN logs[resp'.log].follow_ups
       /\ users[resp'.actor].is_active
       =>
        /\ resp'.result = "ok" <=> MayUpdateFollowUp(resp'.actor, resp'.log, resp'.index)
        /\ MayManageChildren(resp'.actor, resp'.log) => resp'.result = "ok"
        /\ resp'.result # "ok" => resp'.result = "forbidden" /\ logs' = logs]_vars

\* C17 witness: a mentor who does not own the log completed the follow-up
\* assigned to them.
C17_Witness ==
    /\ resp.op = "mark_completed" /\ resp.result = "ok"
    /\ users[resp.actor].role = "mentor"
    /\ logs[resp.log].mentor_id # resp.actor
    /\ logs[resp.log].follow_ups[resp.index].assigned_to = resp.actor

\* C18: update_user is not refused to an admin, whatever the target and the
\* fields; it succeeds for a supervisor only on a target of role mentor with
\* a body that does not set role, and for a mentor only on the mentor
\* themself with a body that does not set role; so a user's role changes only
\* in an update performed by an admin.
C18_UpdateUserGuard ==
    [][/\ /\ resp'.op = "update_user"
          /\ resp'.target \in DOMAIN users
          /\ users[resp'.actor].is_active
          =>
           CASE users[resp'.actor].role = "admin" -> resp'.result # "forbidden"
             [] users[resp'.actor].role = "supervisor" ->
                    resp'.result = "ok" =>
                        /\ users[resp'.target].role = "mentor"
                        /\ "role" \notin resp'.fields
             [] OTHER ->
                    resp'.result = "ok" =>
                        /\ resp'.target = resp'.actor
                        /\ "role" \notin resp'.fields
       /\ \A u \in DOMAIN users :
            u \in DOMAIN users' /\ users'[u].role # users[u].role =>
                resp'.op = "update_user" /\ users[resp'.actor].role = "admin"]_vars

\* C18 witness: an update that carries role succeeded and the target's role
\* is no longer the one it started with.
C18_Witness ==
    /\ resp.op = "update_user" /\ resp.result = "ok"
    /\ "role" \in resp.fields
    /\ resp.target \in UserIds
    /\ users[resp.target].role # InitUsers[resp.target].role

store == <<facilities, attachments, blobs, users, specializations, logs,
           specialist_notifications, specialist_read, notifications, comments>>

\* C20: every step that adds, changes or deletes stored state is made for an
\* authenticated, existing, active user; a request without a valid
\* credential changes no record, user records included.
C20_MutationsAuthenticated ==
    [][store' # store =>
        /\ resp'.actor \in DOMAIN users
        /\ users[resp'.actor].is_active]_vars

\* read_at of a row of specialist_notifications.
SpecialistReadAt(read, t) == IF t \in DOMAIN read THEN read[t] ELSE NULL

\* The operations of notifications.py that write.
NotificationWrites == {"mark_read", "mark_all_read", "delete_notification"}

\* C19: mark-read, mark-all-read and delete leave every notification of
\* another recipient in place with its is_read and read_at, in both tables,
\* also when the request names its id.
C19_OnlyOwnNotifications ==
    [][resp'.op \in NotificationWrites =>
        /\ \A i \in DOMAIN notifications :
              notifications[i].user_id # resp'.actor =>
                  \E j \in DOMAIN notifications' : notifications'[j] = notifications[i]
        /\ \A t \in BagToSet(specialist_notifications) :
              t[2] # resp'.actor =>
                  /\ CopiesIn(t, specialist_notifications') =
                        CopiesIn(t, specialist_notifications)
                  /\ SpecialistReadAt(specialist_read', t) =
                        SpecialistReadAt(specialist_read, t)]_vars

\* m2 marked read a list of ids that names its own specialist notification,
\* s1's specialist notification and m1's notification: only its own is read.
C19_Witness ==
    /\ resp.op = "mark_read" /\ resp.result = "ok" /\ resp.actor = "m2"
    /\ <<"L1", "m2", "PMTCT">> \in resp.ids.specialist \cap DOMAIN specialist_read
    /\ <<"L1", "s1", "TB/HIV">> \in resp.ids.specialist \ DOMAIN specialist_read
    /\ BagIn(<<"L1", "s1", "TB/HIV">>, specialist_notifications)
    /\ \E i \in DOMAIN notifications :
            /\ notifications[i].id \in resp.ids.notification
            /\ notifications[i].user_id = "m1"
            /\ ~notifications[i].is_read

\* C21: a request that carries the token of a user whose is_active is false
\* is rejected as "Inactive user" and leaves the store as it was, whatever
\* the operation and for as long as the flag stays false.
C21_InactiveRejected ==
    [][/\ resp'.actor \in DOMAIN users
       /\ ~users[resp'.actor].is_active
       => resp'.result = "inactive" /\ store' = store]_vars

\* m1 was deactivated after creating a draft and its submit was rejected.
C21_Witness ==
    /\ resp.op = "submit" /\ resp.actor = "m1" /\ resp.result = "inactive"
    /\ ~users["m1"].is_active
    /\ resp.log \in DOMAIN logs
    /\ logs[resp.log].mentor_id = "m1" /\ logs[resp.log].status = "draft"

\* C23: a user's is_active changes only in an operation performed by an
\* admin.
C23_IsActiveByAdminOnly ==
    [][\A u \in DOMAIN users :
        u \in DOMAIN users' /\ users'[u].is_active # users[u].is_active =>
            /\ resp'.actor \in DOMAIN users
            /\ users[resp'.actor].role = "admin"]_vars

\* C22: an approve of a submitted log by an active user with role supervisor
\* succeeds: the log becomes approved, approved_at is set and approved_by is
\* that supervisor.
C22_SupervisorApproves ==
    [][/\ OnLog("approve") /\ users[resp'.actor].is_active
       /\ users[resp'.actor].role = "supervisor"
       /\ logs[resp'.log].status = "submitted"
       =>
        /\ resp'.result = "ok"
        /\ logs'[resp'.log].status = "approved"
        /\ logs'[resp'.log].approved_at = NOW
        /\ logs'[resp'.log].approved_by = resp'.actor]_vars

\* C24: of the approve, reject and return_to_draft calls that run at the
\* same time on a submitted log at most one succeeds: a review call
\* succeeds only on a log that is submitted when it writes, and a log that
\* carries approval data is approved (never draft again through the other
\* call).
C24_OneReviewSucceeds ==
    [][/\ resp'.op \in ReviewOps /\ resp'.result = "ok" /\ logs' # logs
          => logs[resp'.log].status = "submitted"
       /\ \A l \in DOMAIN logs' :
            logs'[l].approved_at # NULL => logs'[l].status = "approved"]_vars

\* C25: a submit that answers 200 on a draft log has kept its status change
\* and holds a notification for every candidate (log, specialist, area) of
\* its fan-out, also when some candidate met the unique constraint: the
\* violation discards that candidate only.
C25_ViolationDiscardsOneCandidate ==
    [][/\ OnLog("submit") /\ resp'.result = "ok"
       /\ logs[resp'.log].status = "draft"
       =>
        /\ logs'[resp'.log].status = "submitted"
        /\ \A i \in DOMAIN logs[resp'.log].thematic_areas :
             \A u \in Specialists(logs[resp'.log].thematic_areas[i], resp'.actor) :
                BagIn(<<resp'.log, u, logs[resp'.log].thematic_areas[i]>>,
                      specialist_notifications')]_vars

\* The step added exactly one notification, of the given type, unread, about
\* the request's log and addressed to that log's mentor.
OneNotificationToMentor(type) ==
    /\ Len(notifications') = Len(notifications) + 1
    /\ SubSeq(notifications', 1, Len(notifications)) = notifications
    /\ LET n == notifications'[Len(notifications')]
       IN  /\ n.user_id = logs[resp'.log].mentor_id
           /\ n.notification_type = type
           /\ n.related_log_id = resp'.log
           /\ ~n.is_read
           /\ n.reason = resp'.reason

\* All columns of the request's log other than those named are as before.
OtherColumnsKept(columns) ==
    \A c \in DOMAIN logs[resp'.log] \ columns :
        logs'[resp'.log][c] = logs[resp'.log][c]

\* C26: a successful approve of log L by X leaves L approved with
\* approved_at set and approved_by = X, and adds exactly one approval
\* notification, addressed to L's mentor; when X is L's mentor it adds none.
C26_ApproveEffect ==
    [][OnLog("approve") /\ resp'.result = "ok"
       =>
        /\ logs'[resp'.log].status = "approved"
        /\ logs'[resp'.log].approved_at = NOW
        /\ logs'[resp'.log].approved_by = resp'.actor
        /\ OtherColumnsKept({"status", "approved_at", "approved_by"})
        /\ IF logs[resp'.log].mentor_id # resp'.actor
           THEN OneNotificationToMentor("approval")
           ELSE notifications' = notifications
        /\ specialist_notifications' = specialist_notifications]_vars

\* s1 approved m1's log and m1 holds the approval notification.
C26_Witness ==
    /\ resp.op = "approve" /\ resp.result = "ok" /\ resp.actor = "s1"
    /\ resp.log \in DOMAIN logs
    /\ logs[resp.log].mentor_id = "m1" /\ logs[resp.log].approved_by = "s1"
    /\ \E i \in DOMAIN notifications :
            /\ notifications[i].user_id = "m1"
            /\ notifications[i].notification_type = "approval"

\* C27: a successful reject(reason) is made by a supervisor or admin on a
\* submitted log; it leaves the log draft with rejected_at set,
\* rejection_reason = reason and submitted_at cleared, and adds exactly one
\* rejection notification with the reason, addressed to the log's mentor;
\* when the actor is the mentor it adds none.  A mentor never rejects.
C27_RejectEffect ==
    [][OnLog("reject") /\ resp'.result = "ok"
       =>
        /\ users[resp'.actor].role \in {"supervisor", "admin"}
        /\ logs[resp'.log].status = "submitted"
        /\ logs'[resp'.log].status = "draft"
        /\ logs'[resp'.log].rejected_at = NOW
        /\ logs'[resp'.log].rejection_reason = resp'.reason
        /\ logs'[resp'.log].submitted_at = NULL
        /\ OtherColumnsKept({"status", "rejected_at", "rejection_reason",
                             "submitted_at"})
        /\ IF logs[resp'.log].mentor_id # resp'.actor
           THEN OneNotificationToMentor("rejection")
           ELSE notifications' = notifications
        /\ specialist_notifications' = specialist_notifications]_vars

\* The admin rejected m1's log with a reason and m1 holds the notification
\* that carries it.
C27_Witness ==
    /\ resp.op = "reject" /\ resp.result = "ok" /\ resp.actor = "ad"
    /\ resp.log \in DOMAIN logs
    /\ logs[resp.log].mentor_id = "m1" /\ logs[resp.log].status = "draft"
    /\ logs[resp.log].rejection_reason = Given(<<"r">>)
    /\ \E i \in DOMAIN notifications :
            /\ notifications[i].user_id = "m1"
            /\ notifications[i].notification_type = "rejection"
            /\ notifications[i].reason = Given(<<"r">>)

\* C28: return_to_draft succeeds only for a supervisor or admin on a
\* submitted log; it sets status draft and submitted_at NULL and leaves every
\* other column of the log, its children and all notifications as they were;
\* a mentor's call is Forbidden and changes nothing.
C28_ReturnToDraftEffect ==
    [][OnLog("return_to_draft") /\ users[resp'.actor].is_active
       =>
        /\ resp'.result = "ok" =>
            /\ users[resp'.actor].role \in {"supervisor", "admin"}
            /\ logs[resp'.log].status = "submitted"
            /\ logs'[resp'.log].status = "draft"
            /\ logs'[resp'.log].submitted_at = NULL
            /\ OtherColumnsKept({"status", "submitted_at"})
            /\ notifications' = notifications
            /\ specialist_notifications' = specialist_notifications
            /\ specialist_read' = specialist_read
            /\ comments' = comments /\ attachments' = attachments
        /\ users[resp'.actor].role = "mentor" =>
            resp'.result = "forbidden" /\ store' = store]_vars

\* A log that was rejected and submitted again was returned to draft by its
\* supervisor: the rejection data is still there.
C28_Witness ==
    /\ resp.op = "return_to_draft" /\ resp.result = "ok" /\ resp.actor = "s1"
    /\ resp.log \in DOMAIN logs
    /\ logs[resp.log].status = "draft" /\ logs[resp.log].submitted_at = NULL
    /\ logs[resp.log].rejected_at = NOW
    /\ logs[resp.log].rejection_reason # Unset

\* C29: a call that ends in an access-control or state-machine error
\* (Forbidden, invalid state or validation failure, not found) has changed
\* nothing: every table and the storage bucket are as before the call.
C29_FailedCallChangesNothing ==
    [][resp'.result \in {"forbidden", "bad_request", "not_found"}
       => store' = store]_vars

\* C30: marking read a notification that is already read succeeds and
\* leaves its read_at at the value the first marking gave it, by id list and
\* by mark-all-read, in both tables.
C30_MarkReadIdempotent ==
    [][resp'.op \in {"mark_read", "mark_all_read"} /\ users[resp'.actor].is_active
       =>
        /\ \A i \in DOMAIN notifications :
              notifications[i].is_read =>
                  /\ notifications'[i].read_at = notifications[i].read_at
                  /\ /\ resp'.op = "mark_read"
                     /\ notifications[i].id \in resp'.ids.notification
                     /\ notifications[i].user_id = resp'.actor
                     => resp'.result = "ok"
        /\ \A t \in DOMAIN specialist_read :
              /\ specialist_read'[t] = specialist_read[t]
              /\ /\ resp'.op = "mark_read"
                 /\ t \in resp'.ids.specialist
                 /\ t[2] = resp'.actor
                 => resp'.result = "ok"]_vars

\* C31: after a successful update of a log, its follow-ups (skills
\* transfers) are exactly the list the body supplied, as new pending
\* follow-ups, with no previous item left; a body that omits the list leaves
\* the existing items as they were.
C31_NestedListsReplaced ==
    [][OnLog("update") /\ resp'.result = "ok"
       =>
        /\ logs[resp'.log].status = "draft"
        /\ logs'[resp'.log].follow_ups =
              IF resp'.body.follow_ups.set
              THEN [i \in DOMAIN resp'.body.follow_ups.value |->
                      [assigned_to |-> resp'.body.follow_ups.value[i].assigned_to,
                       status |-> "pending", completed_at |-> NULL]]
              ELSE logs[resp'.log].follow_ups
        /\ logs'[resp'.log].skills_transfers =
              IF resp'.body.skills_transfers.set
              THEN resp'.body.skills_transfers.value
              ELSE logs[resp'.log].skills_transfers]_vars

\* An update that supplied an empty follow_ups list and no skills_transfers
\* list: the follow-ups are gone and the skills transfer is still there.
C31_Witness ==
    /\ resp.op = "update" /\ resp.result = "ok"
    /\ resp.body.follow_ups = Given(<<>>)
    /\ ~resp.body.skills_transfers.set
    /\ resp.log \in DOMAIN logs
    /\ logs[resp.log].follow_ups = <<>>
    /\ logs[resp.log].skills_transfers # <<>>

\* What a notification shows to its recipient u: the list get_my_notifications
\* returns, without the read marks.
NotificationDisplay(u) ==
    {[id |-> n.id, notification_type |-> n.notification_type,
      related_log_id |-> n.related_log_id, facility_name |-> n.facility_name] :
        n \in my_notifications(u, FALSE)}

\* C32: a notification its recipient can retrieve stays retrievable by that
\* recipient, with the same display data, through every later step that is
\* not the recipient's own delete of it, the deletion of its log included.
C32_NotificationsSurvive ==
    [][resp'.op # "delete_notification" =>
        \A u \in UserIds : NotificationDisplay(u) \subseteq NotificationDisplay(u)']_vars

\* C33: the comment a successful create_log_comment stores is flagged
\* is_specialist_comment exactly when its author is not the log's mentor,
\* not an admin and not the supervisor assigned to the log's mentor,
\* whatever the body says.
C33_SpecialistFlag ==
    [][OnLog("create_comment") /\ resp'.result = "ok"
       =>
        /\ Len(comments') = Len(comments) + 1
        /\ LET c == comments'[Len(comments')]
               mentor == logs[resp'.log].mentor_id
           IN  /\ c.user_id = resp'.actor
               /\ c.is_specialist_comment <=>
                    /\ resp'.actor # mentor
                    /\ users[resp'.actor].role # "admin"
                    /\ ~(/\ users[resp'.actor].role = "supervisor"
                         /\ users[mentor].supervisor_id = resp'.actor)]_vars

\* C34: in every state, a draft log has no submitted_at, a submitted log has
\* one, an approved log has submitted_at, approved_at and approved_by, and
\* approved_at / approved_by are set on approved logs only.
C34_TimestampsMatchStatus ==
    \A l \in DOMAIN logs :
        /\ logs[l].status = "draft" => logs[l].submitted_at = NULL
        /\ logs[l].status = "submitted" => logs[l].submitted_at # NULL
        /\ logs[l].status = "approved" =>
            /\ logs[l].submitted_at # NULL
            /\ logs[l].approved_at # NULL
            /\ logs[l].approved_by # NULL
        /\ logs[l].approved_at # NULL \/ logs[l].approved_by # NULL =>
            logs[l].status = "approved"

\* C35: in every state an approved log was approved by someone other than
\* its author.
C35_NotApprovedByAuthor ==
    \A l \in DOMAIN logs :
        logs[l].status = "approved" => logs[l].approved_by # logs[l].mentor_id

\* C36: every log that list_mentorship_logs returns to an actor is a log
\* that get_mentorship_log returns to the same actor in the same state.
C36_ListedLogsAreViewable ==
    resp.op = "list_logs" /\ resp.result = "ok" =>
        \A l \in resp.items : get_mentorship_log_status(resp.actor, l) = "ok"

\* C36 witness: a mentor was listed another author's approved log, which
\* only the specialist branch of get_mentorship_log lets the mentor view.
C36_Witness ==
    /\ resp.op = "list_logs" /\ resp.result = "ok"
    /\ users[resp.actor].role = "mentor"
    /\ \E l \in resp.items :
            /\ logs[l].mentor_id # resp.actor
            /\ logs[l].status = "approved"
            /\ can_view_as_specialist(l, resp.actor)

\* C37: in every state, each specialist notification (L, U, area) belongs to
\* a user U whom get_mentorship_log lets view log L (U's account being
\* active).
C37_NotifiedCanView ==
    \A t \in BagToSet(specialist_notifications) :
        users[t[2]].is_active => get_mentorship_log_status(t[2], t[1]) = "ok"

\* C38: a read of a log's sub-resources (its attachment list, an attachment's
\* content or URL, a follow-up, the follow-up list) succeeds for an actor
\* only on logs that get_mentorship_log lets the actor view.
C38_SubResourceReadsNeedView ==
    /\ resp.op \in {"list_attachments", "download_attachment",
                    "get_attachment_url", "get_follow_up"}
       /\ resp.result = "ok"
       => get_mentorship_log_status(resp.actor, resp.log) = "ok"
    /\ resp.op = "list_follow_ups" /\ resp.result = "ok"
       => \A f \in resp.items : get_mentorship_log_status(resp.actor, f[1]) = "ok"

\* The users with role admin.
Admins == {u \in DOMAIN users : users[u].role = "admin"}

\* C39: a step adds a user to the set of admins only if it is a create_user
\* or update_user request performed by a user who was an admin before the
\* step; requests by other users or without credentials add none.
C39_AdminsOnlyThroughAdmin ==
    [][~(Admins' \subseteq Admins) =>
            /\ resp'.op \in {"create_user", "update_user"}
            /\ resp'.actor \in Admins]_vars

\* C40: in every state a follow-up has completed_at set if and only if its
\* status is completed.
C40_CompletedAtIffCompleted ==
    \A l \in DOMAIN logs : \A i \in DOMAIN logs[l].follow_ups :
        logs[l].follow_ups[i].completed_at # NULL
            <=> logs[l].follow_ups[i].status = "completed"

====
